---- MODULE Spec2Model ----
(***************************************************************************)
(* A model of ez_ptc's execution engine (src/src/ez_ptc/executor.py):      *)
(* execute_code, its inner _run, the call-logging tool wrapper and the two *)
(* timeout strategies (SIGALRM on the main thread, a daemon worker thread  *)
(* otherwise).  Positions in the code are named after the source line that *)
(* is about to execute ("L305" = executor.py line 305).                    *)
(***************************************************************************)
EXTENDS Integers, Sequences, FiniteSets, TLC

VARIABLES
    scenario,         \* how the host uses the engine: one call, or two concurrent calls
    sys_stdout,       \* process-wide sys.stdout: "real" or the execution whose capture it is
    sys_stderr,       \* process-wide sys.stderr
    alarm_pending,    \* process-wide: a SIGALRM timer is armed
    sig_handler,      \* process-wide SIGALRM handler: "orig" or the execution whose _timeout_handler it is
    pc,               \* per execution: position of execute_code in the calling thread
    host,             \* per execution: the calling context (main thread? running event loop?)
    body_code,        \* per execution: the script has body statements
    last_expr_code,   \* per execution: the script ends in a bare expression
    conc,             \* per execution: the script runs tool calls concurrently (gather + to_thread)
    rpc,              \* per execution: position of _run
    fault,            \* per execution: the fault _run is unwinding with / escaped with
    result,           \* per execution: the ExecutionResult object
    call_log,         \* per execution: the call_log list
    stdout_capture,   \* per execution: the stdout StringIO
    stderr_capture,   \* per execution: the stderr StringIO
    saved_out,        \* per execution: redirect_stdout's saved target
    saved_err,        \* per execution: redirect_stderr's saved target
    original_handler, \* per execution: the handler saved at line 332
    inflight,         \* per execution: wrapper invocations in progress
    issued,           \* history: inputs of the calls the script issued, in issue order
    completed,        \* history: ids of calls in the order tool.fn returned
    script_saw,       \* history: (id, value) in the order wrappers returned to the script
    printed,          \* history: number of print() calls the script made
    diverges,         \* per execution: the script is in a loop it never leaves on its own
    iter,             \* per execution: loop counter of that loop, modulo 2
    elapsed,          \* history: the budget elapsed (alarm fired / join timed out)
    unhandled,        \* history: a fault left the script unhandled
    evals,            \* history: number of times eval of the trailing expression was entered
    eval_value,       \* history: the value eval of the trailing expression returned
    budget,           \* timing: the timeout argument, in clock ticks
    alarm_at,         \* timing: the delay the alarm was armed with, in clock ticks (0: not armed)
    now,              \* timing: clock ticks since the alarm was armed
    timed_out,        \* timing: the cancellation fault has been raised
    res,              \* projection: an ExecutionResult the host holds
    shown,            \* projection: what to_string() returned for it
    request,          \* import guard: the arguments of an __import__ call
    imported,         \* import guard: how the call ended and the modules it loaded
    script_result,    \* import guard: the result of the script made of that import statement
    sb_script,        \* namespace: the script the host executes, again and again
    sb_pc,            \* namespace: position of the execution in progress
    namespace,        \* namespace: the namespace dict of the execution in progress
    module_attrs,     \* namespace: process-wide, the attributes of the pre-injected modules
    seen,             \* namespace: what the script read before it wrote
    sb_results,       \* namespace: the results returned so far, in order
    aw_in,            \* wrapper: the call (is a loop running in the caller? what tool.fn returns)
    aw_pc,            \* wrapper: position of the wrapper in the calling thread
    aw_result,        \* wrapper: its local `result`
    coro,             \* wrapper: the coroutine tool.fn returned
    running_loops,    \* wrapper: per thread, the event loops running on it
    aw_log,           \* wrapper: the call_log list
    aw_ret,           \* wrapper: what the script got back
    held,             \* reach: the objects the script of the execution in progress holds a reference to
    safe_modules,     \* reach: process-wide, the content of the set _SAFE_MODULES
    llm_response,     \* extract_code: the response, as its text passages and fenced blocks in order
    extracted,        \* extract_code: what it returned
    sp_code,          \* splitter: the script, as whether it parses and its top-level statements
    sp_pc,            \* splitter: position of execute_code
    sp_body,          \* splitter: body_code
    sp_expr,          \* splitter: last_expr_code
    sp_ran,           \* splitter: the statements exec ran, in order
    sp_evald,         \* splitter: the expressions eval evaluated, in order
    sp_value,         \* splitter: result.return_value
    heap,             \* call record: the mutable objects (lists) of the script, by identity
    rec_log,          \* call record: the call_log list, its records holding references
    rec_made,         \* history: each record as it read when it was appended
    n_stack,          \* nesting: the execute_code calls on the main thread's stack, outermost first
    n_alarm,          \* nesting: process-wide, the pending SIGALRM timer (whose, seconds left)
    n_handler,        \* nesting: process-wide, the SIGALRM handler (0: the host's, i: call i's)
    n_last,           \* nesting: how the call that returned last ended ("none": no call has returned)
    objs,             \* per-execution state: the dicts and lists of the process, by identity
    ex                \* per-execution state: per execution, its position and the objects it was built with

vars == << scenario, sys_stdout, sys_stderr, alarm_pending, sig_handler, pc, host,
           body_code, last_expr_code, conc, rpc, fault, result, call_log,
           stdout_capture, stderr_capture, saved_out, saved_err, original_handler,
           inflight, issued, completed, script_saw, printed, diverges, iter,
           elapsed, unhandled, evals, eval_value, budget, alarm_at, now, timed_out,
           res, shown, request, imported, script_result,
           sb_script, sb_pc, namespace, module_attrs, seen, sb_results,
           aw_in, aw_pc, aw_result, coro, running_loops, aw_log, aw_ret,
           held, safe_modules,
           llm_response, extracted,
           sp_code, sp_pc, sp_body, sp_expr, sp_ran, sp_evald, sp_value,
           heap, rec_log, rec_made,
           n_stack, n_alarm, n_handler, n_last,
           objs, ex >>

\* groups of variables, for the frame conditions
procVars   == << sys_stdout, sys_stderr, alarm_pending, sig_handler >>
inputVars  == << scenario, host, body_code, last_expr_code, conc >>
redirVars  == << saved_out, saved_err, original_handler >>
callVars   == << inflight, issued, completed, script_saw, call_log >>
bufVars    == << stdout_capture, stderr_capture, printed >>
loopVars   == << diverges, iter >>
timeVars   == << budget, alarm_at, now, timed_out >>
viewVars   == << res, shown >>
importVars == << request, imported, script_result >>
sandboxVars == << sb_script, sb_pc, namespace, module_attrs, seen, sb_results >>
asyncVars  == << aw_in, aw_pc, aw_result, coro, running_loops, aw_log, aw_ret >>
reachVars  == << held, safe_modules >>
extractVars == << llm_response, extracted >>
splitVars  == << sp_code, sp_pc, sp_body, sp_expr, sp_ran, sp_evald, sp_value >>
recVars    == << heap, rec_log, rec_made >>
nestVars   == << n_stack, n_alarm, n_handler, n_last >>
isoVars    == << objs, ex >>
calcVars   == << timeVars, viewVars, importVars, sandboxVars, asyncVars, reachVars, extractVars, splitVars, recVars, nestVars, isoVars >>
engineVars == << scenario, sys_stdout, sys_stderr, alarm_pending, sig_handler, pc, host,
                 body_code, last_expr_code, conc, rpc, fault, result, call_log,
                 stdout_capture, stderr_capture, saved_out, saved_err, original_handler,
                 inflight, issued, completed, script_saw, printed, diverges, iter,
                 elapsed, unhandled, evals, eval_value >>
restOfTime    == << engineVars, viewVars, importVars, sandboxVars, asyncVars, reachVars, extractVars, splitVars, recVars, nestVars, isoVars >>
restOfView    == << engineVars, timeVars, importVars, sandboxVars, asyncVars, reachVars, extractVars, splitVars, recVars, nestVars, isoVars >>
restOfImport  == << engineVars, timeVars, viewVars, sandboxVars, asyncVars, reachVars, extractVars, splitVars, recVars, nestVars, isoVars >>
restOfSandbox == << engineVars, timeVars, viewVars, importVars, asyncVars, reachVars, extractVars, splitVars, recVars, nestVars, isoVars >>
restOfAsync   == << engineVars, timeVars, viewVars, importVars, sandboxVars, reachVars, extractVars, splitVars, recVars, nestVars, isoVars >>
restOfReach   == << engineVars, timeVars, viewVars, importVars, sandboxVars, asyncVars, extractVars, splitVars, recVars, nestVars, isoVars >>
restOfExtract == << engineVars, timeVars, viewVars, importVars, sandboxVars, asyncVars, reachVars, splitVars, recVars, nestVars, isoVars >>
restOfSplit   == << engineVars, timeVars, viewVars, importVars, sandboxVars, asyncVars, reachVars, extractVars, recVars, nestVars, isoVars >>
restOfRecord  == << engineVars, timeVars, viewVars, importVars, sandboxVars, asyncVars, reachVars, extractVars, splitVars, nestVars, isoVars >>
restOfNest    == << engineVars, timeVars, viewVars, importVars, sandboxVars, asyncVars, reachVars, extractVars, splitVars, recVars, isoVars >>
restOfIso     == << engineVars, timeVars, viewVars, importVars, sandboxVars, asyncVars, reachVars, extractVars, splitVars, recVars, nestVars >>

----------------------------------------------------------------------------
(* Bounds of the model *)

\* most tool calls one script issues
MaxCalls == 2
\* most print() calls one script makes
MaxPrints == 1

----------------------------------------------------------------------------
(* Values *)

Execs == {"A", "B"}

\* Python values, tagged with their type: None, an int, a str (a sequence of pieces)
None == [t |-> "NoneType"]
PyInt(n) == [t |-> "int", v |-> n]
PyStr(s) == [t |-> "str", s |-> s]

\* the values a trailing expression evaluates to (None included: `None`, `print(..)`)
Values == {None, PyInt(7)}

\* more values a trailing expression can have, falsy ones among them: 0, 42, '', 'a'
ManyValues == {None, PyInt(0), PyInt(42), PyStr(<<>>), PyStr(<<"a">>)}

\* the registered capability of the tests' add-numbers scenario
ToolName == "addNumbers"

\* inputs of one tool call: positional args and keyword args (a set of key/value pairs)
CallInputs == { [args |-> <<3, 4>>, kwargs |-> {}],
                [args |-> <<3>>, kwargs |-> {<<"b", 4>>, <<"c", 1>>}] }

RECURSIVE SumSeq(_)
SumSeq(s) == IF s = <<>> THEN 0 ELSE Head(s) + SumSeq(Tail(s))

RECURSIVE SumPairs(_)
SumPairs(S) == IF S = {} THEN 0
               ELSE LET p == CHOOSE q \in S : TRUE IN p[2] + SumPairs(S \ {p})

\* tool.fn: what the capability computes from its arguments
ToolFn(in) == PyInt(SumSeq(in.args) + SumPairs(in.kwargs))

NoFault == [type |-> "none", msg |-> "", cls |-> "none", printable |-> TRUE]

\* the faults a script raises: an ordinary Exception, an Exception whose
\* __str__ itself raises, and one that is not a subclass of Exception
ScriptFaults ==
    { [type |-> "ValueError", msg |-> "something went wrong", cls |-> "Exception", printable |-> TRUE],
      [type |-> "E", msg |-> "", cls |-> "Exception", printable |-> FALSE],
      [type |-> "SystemExit", msg |-> "", cls |-> "BaseException", printable |-> TRUE] }

\* the fault a failing capability raises
ToolFault == [type |-> "RuntimeError", msg |-> "tool broke", cls |-> "Exception", printable |-> TRUE]

\* the fault raised while formatting an unprintable fault at line 309
FormatFault == [type |-> "ValueError", msg |-> "x", cls |-> "Exception", printable |-> TRUE]

\* f"Execution timed out after {timeout} seconds"
TimeoutMsg == PyStr(<<"Execution timed out after ", "B", " seconds">>)

\* class _TimeoutError(Exception), raised by _timeout_handler
TimeoutFault == [type |-> "_TimeoutError", msg |-> "Execution timed out after B seconds",
                 cls |-> "Exception", printable |-> TRUE]

\* f"{type(e).__name__}: {e}"
FaultMsg(f) == PyStr(<<f.type, ": ", f.msg>>)

\* f"SyntaxError: {e}"
SyntaxMsg == PyStr(<<"SyntaxError", ": ", "invalid syntax">>)

\* ExecutionResult(): the dataclass defaults
DefaultResult == [output |-> <<>>, error_output |-> <<>>, return_value |-> None,
                  tool_calls |-> "own", success |-> TRUE, error |-> None]

\* the calling contexts: main thread or not, event loop running in it or not, and
\* whether the platform's signal module has SIGALRM
Hosts == [main : BOOLEAN, loop : BOOLEAN, sigalrm : BOOLEAN]

\* a selection that overlooks the running event loop
UseSignalOnMain(h) == h.sigalrm /\ h.main

\* lines 325-329: _use_signal
UseSignal(h) == h.sigalrm /\ h.main /\ ~h.loop

\* the list result.tool_calls refers to: its own default list, or call_log after line 357
ToolCalls(e) == IF result[e].tool_calls = "call_log" THEN call_log[e] ELSE <<>>

\* the result as its holder observes it
View(e) == [result[e] EXCEPT !.tool_calls = ToolCalls(e)]

----------------------------------------------------------------------------
(* Initial state: no execution has been called; the process's streams and  *)
(* SIGALRM disposition are the host's own.                                 *)

InitWith(sc) ==
    /\ scenario = sc
    /\ sys_stdout = "real"
    /\ sys_stderr = "real"
    /\ alarm_pending = FALSE
    /\ sig_handler = "orig"
    /\ pc = [e \in Execs |-> "idle"]
    /\ host = [e \in Execs |-> [main |-> FALSE, loop |-> FALSE, sigalrm |-> TRUE]]
    /\ body_code = [e \in Execs |-> FALSE]
    /\ last_expr_code = [e \in Execs |-> FALSE]
    /\ conc = [e \in Execs |-> FALSE]
    /\ rpc = [e \in Execs |-> "notstarted"]
    /\ fault = [e \in Execs |-> NoFault]
    /\ result = [e \in Execs |-> DefaultResult]
    /\ call_log = [e \in Execs |-> <<>>]
    /\ stdout_capture = [e \in Execs |-> <<>>]
    /\ stderr_capture = [e \in Execs |-> <<>>]
    /\ saved_out = [e \in Execs |-> "real"]
    /\ saved_err = [e \in Execs |-> "real"]
    /\ original_handler = [e \in Execs |-> "orig"]
    /\ inflight = [e \in Execs |-> {}]
    /\ issued = [e \in Execs |-> <<>>]
    /\ completed = [e \in Execs |-> <<>>]
    /\ script_saw = [e \in Execs |-> <<>>]
    /\ printed = [e \in Execs |-> 0]
    /\ diverges = [e \in Execs |-> FALSE]
    /\ iter = [e \in Execs |-> 0]
    /\ elapsed = [e \in Execs |-> FALSE]
    /\ unhandled = [e \in Execs |-> FALSE]
    /\ evals = [e \in Execs |-> 0]
    /\ eval_value = [e \in Execs |-> None]

\* "not there": no result held, to_string not called, no import requested
Unset == [t |-> "unset"]

\* nothing is being timed
TimeIdle ==
    /\ budget = 0
    /\ alarm_at = 0
    /\ now = 0
    /\ timed_out = FALSE

\* the host holds no result
ViewIdle == res = Unset /\ shown = Unset

\* nothing is being imported
ImportIdle == request = Unset /\ imported = Unset /\ script_result = Unset

\* no script is run against a namespace
SandboxIdle ==
    /\ sb_script = Unset /\ sb_pc = "idle" /\ namespace = Unset
    /\ module_attrs = Unset /\ seen = Unset /\ sb_results = <<>>

\* no wrapper is called on its own
AsyncIdle ==
    /\ aw_in = Unset /\ aw_pc = "idle" /\ aw_result = Unset /\ coro = Unset
    /\ running_loops = Unset /\ aw_log = <<>> /\ aw_ret = Unset

\* no script is walking the objects it can reach
ReachIdle ==
    held = Unset /\ safe_modules = Unset

\* no response is being searched for code
ExtractIdle ==
    llm_response = Unset /\ extracted = Unset

\* no script is being split
SplitIdle ==
    /\ sp_code = Unset /\ sp_pc = "idle" /\ sp_body = Unset /\ sp_expr = Unset
    /\ sp_ran = <<>> /\ sp_evald = <<>> /\ sp_value = Unset

\* no script is passing objects to a wrapper
RecordIdle ==
    heap = Unset /\ rec_log = <<>> /\ rec_made = <<>>

\* no call is nested in another
NestIdle ==
    n_stack = <<>> /\ n_alarm = Unset /\ n_handler = 0 /\ n_last = "none"

\* no executions are building their state side by side
IsoIdle ==
    objs = Unset /\ ex = Unset

CalcIdle == TimeIdle /\ ViewIdle /\ ImportIdle /\ SandboxIdle /\ AsyncIdle /\ ReachIdle /\ ExtractIdle /\ SplitIdle /\ RecordIdle /\ NestIdle /\ IsoIdle

\* all of these but one
IdleButTime    == ViewIdle /\ ImportIdle /\ SandboxIdle /\ AsyncIdle /\ ReachIdle /\ ExtractIdle /\ SplitIdle /\ RecordIdle /\ NestIdle /\ IsoIdle
IdleButView    == TimeIdle /\ ImportIdle /\ SandboxIdle /\ AsyncIdle /\ ReachIdle /\ ExtractIdle /\ SplitIdle /\ RecordIdle /\ NestIdle /\ IsoIdle
IdleButImport  == TimeIdle /\ ViewIdle /\ SandboxIdle /\ AsyncIdle /\ ReachIdle /\ ExtractIdle /\ SplitIdle /\ RecordIdle /\ NestIdle /\ IsoIdle
IdleButSandbox == TimeIdle /\ ViewIdle /\ ImportIdle /\ AsyncIdle /\ ReachIdle /\ ExtractIdle /\ SplitIdle /\ RecordIdle /\ NestIdle /\ IsoIdle
IdleButAsync   == TimeIdle /\ ViewIdle /\ ImportIdle /\ SandboxIdle /\ ReachIdle /\ ExtractIdle /\ SplitIdle /\ RecordIdle /\ NestIdle /\ IsoIdle
IdleButReach   == TimeIdle /\ ViewIdle /\ ImportIdle /\ SandboxIdle /\ AsyncIdle /\ ExtractIdle /\ SplitIdle /\ RecordIdle /\ NestIdle /\ IsoIdle
IdleButExtract == TimeIdle /\ ViewIdle /\ ImportIdle /\ SandboxIdle /\ AsyncIdle /\ ReachIdle /\ SplitIdle /\ RecordIdle /\ NestIdle /\ IsoIdle
IdleButSplit   == TimeIdle /\ ViewIdle /\ ImportIdle /\ SandboxIdle /\ AsyncIdle /\ ReachIdle /\ ExtractIdle /\ RecordIdle /\ NestIdle /\ IsoIdle
IdleButRecord  == TimeIdle /\ ViewIdle /\ ImportIdle /\ SandboxIdle /\ AsyncIdle /\ ReachIdle /\ ExtractIdle /\ SplitIdle /\ NestIdle /\ IsoIdle
IdleButNest    == TimeIdle /\ ViewIdle /\ ImportIdle /\ SandboxIdle /\ AsyncIdle /\ ReachIdle /\ ExtractIdle /\ SplitIdle /\ RecordIdle /\ IsoIdle
IdleButIso     == TimeIdle /\ ViewIdle /\ ImportIdle /\ SandboxIdle /\ AsyncIdle /\ ReachIdle /\ ExtractIdle /\ SplitIdle /\ RecordIdle /\ NestIdle

Init == InitWith("single") /\ CalcIdle

\* the executions the host makes in a scenario
ScenarioExecs == IF scenario = "concurrent" THEN Execs ELSE {"A"}

\* The inputs drawn in a scenario.  A single call draws from everything.  Of two
\* concurrent calls, A is made on the main thread or on another one and its script
\* makes at most one sequential tool call and raises only the ordinary fault; B is
\* made on another thread with a script of body statements that only print.  A call
\* in the "platform" scenario has A's script, with a trailing expression of any of
\* ManyValues, and is made in any calling context on a platform with or without SIGALRM.
Full == scenario = "single"
HostsOf(e) == IF Full THEN {h \in Hosts : h.sigalrm}
              ELSE IF scenario = "platform" THEN Hosts
              ELSE IF e = "A" THEN {h \in Hosts : h.sigalrm /\ ~h.loop}
              ELSE {h \in Hosts : h.sigalrm /\ ~h.loop /\ ~h.main}
ParsesOf(e) == IF Full \/ e = "A" THEN BOOLEAN ELSE {TRUE}
BodyOf(e) == IF Full \/ e = "A" THEN BOOLEAN ELSE {TRUE}
ExprOf(e) == IF Full \/ e = "A" THEN BOOLEAN ELSE {FALSE}
ConcOf(e) == IF Full THEN BOOLEAN ELSE {FALSE}
CallsOf(e) == IF Full THEN MaxCalls ELSE IF e = "A" THEN 1 ELSE 0
FaultsOf(e) == IF Full THEN ScriptFaults
               ELSE IF e = "A" THEN {f \in ScriptFaults : f.type = "ValueError"} ELSE {}
ValuesOf(e) == IF Full THEN Values ELSE IF scenario = "platform" THEN ManyValues ELSE {PyInt(7)}
InputsOf(e) == IF Full THEN CallInputs ELSE {in \in CallInputs : in.kwargs = {}}
PrintsOf(e) == IF Full THEN MaxPrints ELSE 1
MayLoop(e) == Full \/ e = "A"

\* execute_code is on e's calling thread's stack
Active(e) == pc[e] \notin {"idle", "returned", "raised"}

----------------------------------------------------------------------------
(* execute_code, lines 247-293: fresh per-execution state, parse, split.   *)

\* a parse failure reported on the output stream instead of the error stream
SyntaxErrorAsOutput(e) ==
    [DefaultResult EXCEPT !.success = FALSE, !.error = SyntaxMsg,
                          !.output = <<[src |-> e, text |-> SyntaxMsg.s]>>]

\* lines 274-280: ast.parse raised SyntaxError
SyntaxErrorResult(e) ==
    [DefaultResult EXCEPT !.success = FALSE, !.error = SyntaxMsg,
                          !.error_output = <<[src |-> e, text |-> SyntaxMsg.s]>>]

Call(e) ==
    /\ e \in ScenarioExecs
    /\ pc[e] = "idle"
    /\ \E h \in HostsOf(e), parses \in ParsesOf(e), hasBody \in BodyOf(e), hasExpr \in ExprOf(e),
          c \in ConcOf(e) :
         \* one thread runs one call at a time: the main thread is not inside another call
         /\ h.main => \A o \in Execs \ {e} : ~(Active(o) /\ host[o].main)
         /\ host' = [host EXCEPT ![e] = h]
         /\ \/ /\ ~parses
               /\ ~hasBody /\ ~hasExpr /\ ~c
               /\ result' = [result EXCEPT ![e] = SyntaxErrorResult(e)]
               /\ pc' = [pc EXCEPT ![e] = "returned"]
               /\ UNCHANGED << body_code, last_expr_code, conc >>
            \/ /\ parses
               /\ c => hasBody
               /\ body_code' = [body_code EXCEPT ![e] = hasBody]
               /\ last_expr_code' = [last_expr_code EXCEPT ![e] = hasExpr]
               /\ conc' = [conc EXCEPT ![e] = c]
               /\ pc' = [pc EXCEPT ![e] = "L331"]
               /\ UNCHANGED result
    /\ UNCHANGED << calcVars, eval_value, evals, scenario, sys_stdout, sys_stderr, alarm_pending, sig_handler, rpc, fault,
                    call_log, stdout_capture, stderr_capture, saved_out, saved_err,
                    original_handler, inflight, issued, completed, script_saw, printed,
                    diverges, iter, elapsed, unhandled >>

----------------------------------------------------------------------------
(* The interrupt-based strategy, lines 331-343.                            *)

\* lines 332-339: save the handler, install _timeout_handler, arm the alarm
Arm(e) ==
    /\ pc[e] = "L331"
    /\ UseSignal(host[e])
    /\ original_handler' = [original_handler EXCEPT ![e] = sig_handler]
    /\ sig_handler' = e
    /\ alarm_pending' = TRUE
    /\ pc' = [pc EXCEPT ![e] = "L340"]
    /\ rpc' = [rpc EXCEPT ![e] = "L297"]
    /\ UNCHANGED << calcVars, eval_value, evals, scenario, sys_stdout, sys_stderr, host, body_code, last_expr_code, conc,
                    fault, result, call_log, stdout_capture, stderr_capture, saved_out,
                    saved_err, inflight, issued, completed, script_saw, printed, diverges,
                    iter, elapsed, unhandled >>

\* _run has returned or raised
RunOver(e) == rpc[e] \in {"done", "escaped"}

\* a finally block that cancels the alarm but leaves _timeout_handler installed
DisarmNoRestore(e) ==
    /\ pc[e] = "L340"
    /\ RunOver(e)
    /\ alarm_pending' = FALSE
    /\ pc' = [pc EXCEPT ![e] = IF rpc[e] = "escaped" THEN "raised" ELSE "L355"]
    /\ UNCHANGED << calcVars, eval_value, evals, scenario, sys_stdout, sys_stderr, sig_handler, host, body_code,
                    last_expr_code, conc, rpc, fault, result, call_log, stdout_capture,
                    stderr_capture, saved_out, saved_err, original_handler, inflight, issued,
                    completed, script_saw, printed, diverges, iter, elapsed, unhandled >>

\* lines 341-343: the finally block, then the fault _run raised (if any) leaves execute_code
Disarm(e) ==
    /\ pc[e] = "L340"
    /\ RunOver(e)
    /\ alarm_pending' = FALSE
    /\ sig_handler' = original_handler[e]
    /\ pc' = [pc EXCEPT ![e] = IF rpc[e] = "escaped" THEN "raised" ELSE "L355"]
    /\ UNCHANGED << calcVars, eval_value, evals, scenario, sys_stdout, sys_stderr, host, body_code, last_expr_code, conc,
                    rpc, fault, result, call_log, stdout_capture, stderr_capture, saved_out,
                    saved_err, original_handler, inflight, issued, completed, script_saw,
                    printed, diverges, iter, elapsed, unhandled >>

----------------------------------------------------------------------------
(* The worker-based strategy, lines 344-353.                               *)

\* lines 348-349: start the daemon thread
StartWorker(e) ==
    /\ pc[e] = "L331"
    /\ ~UseSignal(host[e])
    /\ pc' = [pc EXCEPT ![e] = "L350"]
    /\ rpc' = [rpc EXCEPT ![e] = "L297"]
    /\ UNCHANGED << calcVars, eval_value, evals, scenario, sys_stdout, sys_stderr, alarm_pending, sig_handler, host,
                    body_code, last_expr_code, conc, fault, result, call_log, stdout_capture,
                    stderr_capture, saved_out, saved_err, original_handler, inflight, issued,
                    completed, script_saw, printed, diverges, iter, elapsed, unhandled >>

\* line 350: join returns because the thread ended
JoinDone(e) ==
    /\ pc[e] = "L350"
    /\ RunOver(e)
    /\ pc' = [pc EXCEPT ![e] = "L351"]
    /\ UNCHANGED << calcVars, eval_value, evals, scenario, sys_stdout, sys_stderr, alarm_pending, sig_handler, host,
                    body_code, last_expr_code, conc, rpc, fault, result, call_log,
                    stdout_capture, stderr_capture, saved_out, saved_err, original_handler,
                    inflight, issued, completed, script_saw, printed, diverges, iter,
                    elapsed, unhandled >>

\* line 350: join returns because the budget elapsed
JoinTimeout(e) ==
    /\ pc[e] = "L350"
    /\ ~RunOver(e)
    /\ pc' = [pc EXCEPT ![e] = "L351"]
    /\ elapsed' = [elapsed EXCEPT ![e] = TRUE]
    /\ UNCHANGED << calcVars, eval_value, evals, scenario, sys_stdout, sys_stderr, alarm_pending, sig_handler, host,
                    body_code, last_expr_code, conc, rpc, fault, result, call_log,
                    stdout_capture, stderr_capture, saved_out, saved_err, original_handler,
                    inflight, issued, completed, script_saw, printed, diverges, iter,
                    unhandled >>

\* line 351: thread.is_alive()
IsAlive(e) ==
    /\ pc[e] = "L351"
    /\ pc' = [pc EXCEPT ![e] = IF RunOver(e) THEN "L355" ELSE "L352"]
    /\ UNCHANGED << calcVars, eval_value, evals, scenario, sys_stdout, sys_stderr, alarm_pending, sig_handler, host,
                    body_code, last_expr_code, conc, rpc, fault, result, call_log,
                    stdout_capture, stderr_capture, saved_out, saved_err, original_handler,
                    inflight, issued, completed, script_saw, printed, diverges, iter,
                    elapsed, unhandled >>

\* line 352: result.success = False
SupSetSuccess(e) ==
    /\ pc[e] = "L352"
    /\ result' = [result EXCEPT ![e].success = FALSE]
    /\ pc' = [pc EXCEPT ![e] = "L353"]
    /\ UNCHANGED << calcVars, eval_value, evals, scenario, sys_stdout, sys_stderr, alarm_pending, sig_handler, host,
                    body_code, last_expr_code, conc, rpc, fault, call_log, stdout_capture,
                    stderr_capture, saved_out, saved_err, original_handler, inflight, issued,
                    completed, script_saw, printed, diverges, iter, elapsed, unhandled >>

\* line 353: result.error = the timeout message
SupSetError(e) ==
    /\ pc[e] = "L353"
    /\ result' = [result EXCEPT ![e].error = TimeoutMsg]
    /\ pc' = [pc EXCEPT ![e] = "L355"]
    /\ UNCHANGED << calcVars, eval_value, evals, scenario, sys_stdout, sys_stderr, alarm_pending, sig_handler, host,
                    body_code, last_expr_code, conc, rpc, fault, call_log, stdout_capture,
                    stderr_capture, saved_out, saved_err, original_handler, inflight, issued,
                    completed, script_saw, printed, diverges, iter, elapsed, unhandled >>

----------------------------------------------------------------------------
(* Lines 355-359: snapshot the buffers, alias the call log, return.        *)

\* a collection that hands over the output only of executions that succeeded
CollectDropsOnFailure(e) ==
    /\ pc[e] = "L355"
    /\ result' = [result EXCEPT ![e].output = IF result[e].success THEN stdout_capture[e] ELSE <<>>,
                                ![e].error_output = stderr_capture[e],
                                ![e].tool_calls = "call_log"]
    /\ pc' = [pc EXCEPT ![e] = "returned"]
    /\ UNCHANGED << calcVars, eval_value, evals, scenario, sys_stdout, sys_stderr, alarm_pending, sig_handler, host,
                    body_code, last_expr_code, conc, rpc, fault, call_log, stdout_capture,
                    stderr_capture, saved_out, saved_err, original_handler, inflight, issued,
                    completed, script_saw, printed, diverges, iter, elapsed, unhandled >>

Collect(e) ==
    /\ pc[e] = "L355"
    /\ result' = [result EXCEPT ![e].output = stdout_capture[e],
                                ![e].error_output = stderr_capture[e],
                                ![e].tool_calls = "call_log"]
    /\ pc' = [pc EXCEPT ![e] = "returned"]
    /\ UNCHANGED << calcVars, eval_value, evals, scenario, sys_stdout, sys_stderr, alarm_pending, sig_handler, host,
                    body_code, last_expr_code, conc, rpc, fault, call_log, stdout_capture,
                    stderr_capture, saved_out, saved_err, original_handler, inflight, issued,
                    completed, script_saw, printed, diverges, iter, elapsed, unhandled >>

----------------------------------------------------------------------------
(* _run, lines 295-312, and the script it executes.                        *)

\* the script is executing: exec(body_code) or eval(last_expr_code) is on the stack
InScript(e) == rpc[e] \in {"body", "expr"}

\* a _run that evaluates the trailing expression before the body statements
EvalFirst(from, hasBody, hasExpr) ==
    IF from = "L297" THEN (IF hasExpr THEN "expr" ELSE IF hasBody THEN "body" ELSE "exit")
    ELSE IF from = "expr" THEN (IF hasBody THEN "body" ELSE "exit")
    ELSE "exit"

\* lines 299-303: what the with block does next: `if body_code: exec(...)`, then
\* `if last_expr_code: val = eval(...)`, then it ends
NextPhase(from, hasBody, hasExpr) ==
    IF from = "L297" THEN (IF hasBody THEN "body" ELSE IF hasExpr THEN "expr" ELSE "exit")
    ELSE IF from = "body" THEN (IF hasExpr THEN "expr" ELSE "exit")
    ELSE "exit"

\* line 302 is reached: eval(last_expr_code, namespace) is entered (history)
EnterPhase(e, phase) ==
    IF phase = "expr" THEN [evals EXCEPT ![e] = @ + 1] ELSE evals

\* line 298, __enter__ of both redirections: sys.stdout/sys.stderr become the captures
RunEnter(e) ==
    /\ rpc[e] = "L297"
    /\ saved_out' = [saved_out EXCEPT ![e] = sys_stdout]
    /\ saved_err' = [saved_err EXCEPT ![e] = sys_stderr]
    /\ sys_stdout' = e
    /\ sys_stderr' = e
    /\ rpc' = [rpc EXCEPT ![e] = NextPhase("L297", body_code[e], last_expr_code[e])]
    /\ evals' = EnterPhase(e, NextPhase("L297", body_code[e], last_expr_code[e]))
    /\ UNCHANGED << calcVars, eval_value, alarm_pending, sig_handler, original_handler, pc, inputVars, fault, result,
                    callVars, bufVars, loopVars, elapsed, unhandled >>

\* print(): a write to whatever sys.stdout is at that moment
WriteTo(target, bufs, tok) ==
    IF target = "real" THEN bufs ELSE [bufs EXCEPT ![target] = Append(@, tok)]

ScriptPrint(e) ==
    /\ InScript(e)
    /\ inflight[e] = {}
    /\ ~diverges[e]
    /\ printed[e] < PrintsOf(e)
    /\ printed' = [printed EXCEPT ![e] = @ + 1]
    /\ stdout_capture' = WriteTo(sys_stdout, stdout_capture, [src |-> e, text |-> "hello"])
    /\ UNCHANGED << calcVars, eval_value, evals, procVars, redirVars, pc, inputVars, rpc, fault, result, callVars,
                    stderr_capture, loopVars, elapsed, unhandled >>

\* a fault arrives in the script: a handler of the script (except Exception) swallows
\* it and the script goes on ("resume": where it was; "leave": past its loop), or it
\* propagates out of exec/eval
Handlers(e, f) ==
    {"none"} \cup (IF f.cls = "Exception"
                   THEN {"resume"} \cup (IF diverges[e] THEN {"leave"} ELSE {})
                   ELSE {})

Deliver(e, f, h) ==
    /\ h \in Handlers(e, f)
    /\ IF h = "none"
       THEN /\ rpc' = [rpc EXCEPT ![e] = "unwind"]
            /\ fault' = [fault EXCEPT ![e] = f]
            /\ unhandled' = [unhandled EXCEPT ![e] = TRUE]
            /\ UNCHANGED loopVars
       ELSE /\ diverges' = [diverges EXCEPT ![e] = IF h = "leave" THEN FALSE ELSE @]
            /\ UNCHANGED << rpc, fault, unhandled, iter >>

\* the script raises
ScriptRaise(e) ==
    /\ InScript(e)
    /\ inflight[e] = {}
    /\ ~diverges[e]
    /\ \E f \in FaultsOf(e) : Deliver(e, f, "none")
    /\ UNCHANGED << calcVars, eval_value, evals, procVars, redirVars, pc, inputVars, result, callVars, bufVars, elapsed >>

\* the script enters / iterates a loop it never leaves on its own (while True: pass)
ScriptLoop(e) ==
    /\ rpc[e] = "body"
    /\ MayLoop(e)
    /\ inflight[e] = {}
    /\ diverges' = [diverges EXCEPT ![e] = TRUE]
    /\ iter' = [iter EXCEPT ![e] = (@ + 1) % 2]
    /\ UNCHANGED << calcVars, eval_value, evals, procVars, redirVars, pc, inputVars, rpc, fault, result, callVars, bufVars,
                    elapsed, unhandled >>

\* line 300 returns: the body statements are done
ScriptFinishBody(e) ==
    /\ rpc[e] = "body"
    /\ inflight[e] = {}
    /\ ~diverges[e]
    /\ rpc' = [rpc EXCEPT ![e] = NextPhase("body", body_code[e], last_expr_code[e])]
    /\ evals' = EnterPhase(e, NextPhase("body", body_code[e], last_expr_code[e]))
    /\ UNCHANGED << calcVars, eval_value, procVars, redirVars, pc, inputVars, fault, result, callVars, bufVars,
                    loopVars, elapsed, unhandled >>

\* lines 302-303: eval returns val; result.return_value = val
ScriptFinishExpr(e) ==
    /\ rpc[e] = "expr"
    /\ inflight[e] = {}
    /\ \E v \in ValuesOf(e) :
         /\ eval_value' = [eval_value EXCEPT ![e] = v]
         /\ result' = [result EXCEPT ![e].return_value = v]
    /\ rpc' = [rpc EXCEPT ![e] = NextPhase("expr", body_code[e], last_expr_code[e])]
    /\ UNCHANGED << calcVars, evals, procVars, redirVars, pc, inputVars, fault, callVars, bufVars, loopVars,
                    elapsed, unhandled >>

\* which except clause of _run takes a fault leaving the with block (lines 304, 307)
HandlerFor(f) ==
    IF f.type = "_TimeoutError" THEN "L305"
    ELSE IF f.cls = "Exception" THEN "L308"
    ELSE "escaped"

\* line 298, __exit__ of both redirections: the saved streams are put back
RunExit(e) ==
    /\ rpc[e] \in {"exit", "unwind"}
    /\ sys_stdout' = saved_out[e]
    /\ sys_stderr' = saved_err[e]
    /\ rpc' = [rpc EXCEPT ![e] = IF rpc[e] = "exit" THEN "done" ELSE HandlerFor(fault[e])]
    /\ UNCHANGED << calcVars, eval_value, evals, alarm_pending, sig_handler, redirVars, pc, inputVars, fault, result,
                    callVars, bufVars, loopVars, elapsed, unhandled >>

\* line 305
RunTimeoutSuccess(e) ==
    /\ rpc[e] = "L305"
    /\ result' = [result EXCEPT ![e].success = FALSE]
    /\ rpc' = [rpc EXCEPT ![e] = "L306"]
    /\ UNCHANGED << calcVars, eval_value, evals, procVars, redirVars, pc, inputVars, fault, callVars, bufVars, loopVars,
                    elapsed, unhandled >>

\* line 306
RunTimeoutError(e) ==
    /\ rpc[e] = "L306"
    /\ result' = [result EXCEPT ![e].error = TimeoutMsg]
    /\ rpc' = [rpc EXCEPT ![e] = "done"]
    /\ fault' = [fault EXCEPT ![e] = NoFault]
    /\ UNCHANGED << calcVars, eval_value, evals, procVars, redirVars, pc, inputVars, callVars, bufVars, loopVars,
                    elapsed, unhandled >>

\* line 308
RunFaultSuccess(e) ==
    /\ rpc[e] = "L308"
    /\ result' = [result EXCEPT ![e].success = FALSE]
    /\ rpc' = [rpc EXCEPT ![e] = "L309"]
    /\ UNCHANGED << calcVars, eval_value, evals, procVars, redirVars, pc, inputVars, fault, callVars, bufVars, loopVars,
                    elapsed, unhandled >>

\* line 309: formatting the fault calls its __str__, which may itself raise
RunFaultError(e) ==
    /\ rpc[e] = "L309"
    /\ IF fault[e].printable
       THEN /\ result' = [result EXCEPT ![e].error = FaultMsg(fault[e])]
            /\ rpc' = [rpc EXCEPT ![e] = "L311"]
            /\ UNCHANGED fault
       ELSE /\ rpc' = [rpc EXCEPT ![e] = "escaped"]
            /\ fault' = [fault EXCEPT ![e] = FormatFault]
            /\ UNCHANGED result
    /\ UNCHANGED << calcVars, eval_value, evals, procVars, redirVars, pc, inputVars, callVars, bufVars, loopVars,
                    elapsed, unhandled >>

\* lines 311-312: the traceback is written to this execution's own stderr buffer
RunFaultTraceback(e) ==
    /\ rpc[e] = "L311"
    /\ stderr_capture' = [stderr_capture EXCEPT
                            ![e] = Append(@, [src |-> e, text |-> "Traceback"])]
    /\ rpc' = [rpc EXCEPT ![e] = "done"]
    /\ fault' = [fault EXCEPT ![e] = NoFault]
    /\ UNCHANGED << calcVars, eval_value, evals, procVars, redirVars, pc, inputVars, result, callVars, stdout_capture,
                    printed, loopVars, elapsed, unhandled >>

----------------------------------------------------------------------------
(* _make_tool_wrapper.wrapper, lines 66-92.                                *)

\* a wrapper that forgets the keyword arguments
CallRecordNoKwargs(in, r) == [name |-> ToolName, args |-> in.args, kwargs |-> {}, result |-> r]

\* lines 67-71 and 90: the call record
CallRecord(in, r) == [name |-> ToolName, args |-> in.args, kwargs |-> in.kwargs, result |-> r]

\* a log that puts the newest record first
LogInsertFront(log, rec) == <<rec>> \o log

\* a log whose append is a racy read-modify-write: a concurrent update is lost
LogOverwriteLast(log, rec) ==
    IF log = <<>> THEN <<rec>> ELSE [log EXCEPT ![Len(log)] = rec]

\* line 91: call_log.append(call_record)
LogAppend(log, rec) == Append(log, rec)

\* the script calls a capability: the wrapper is entered (a sequential script waits
\* for it; a concurrent one has several wrappers running on to_thread workers)
ScriptCall(e) ==
    /\ InScript(e)
    /\ ~diverges[e]
    /\ inflight[e] = {} \/ conc[e]
    /\ Len(issued[e]) < CallsOf(e)
    /\ \E in \in InputsOf(e) :
         /\ issued' = [issued EXCEPT ![e] = Append(@, in)]
         /\ inflight' = [inflight EXCEPT ![e] = @ \cup
                            {[id |-> Len(issued[e]) + 1, in |-> in, phase |-> "L73", result |-> None]}]
    /\ UNCHANGED << calcVars, eval_value, evals, procVars, redirVars, pc, inputVars, rpc, fault, result, completed,
                    script_saw, call_log, bufVars, loopVars, elapsed, unhandled >>

\* line 73: tool.fn returns a value
FnReturn(e) ==
    \E c \in inflight[e] :
      /\ c.phase = "L73"
      /\ inflight' = [inflight EXCEPT ![e] =
                        (@ \ {c}) \cup {[c EXCEPT !.phase = "L90", !.result = ToolFn(c.in)]}]
      /\ completed' = [completed EXCEPT ![e] = Append(@, c.id)]
      /\ UNCHANGED << calcVars, eval_value, evals, procVars, redirVars, pc, inputVars, rpc, fault, result, issued,
                      script_saw, call_log, bufVars, loopVars, elapsed, unhandled >>

\* a wrapper that logs the failed call as a partial record before the fault leaves it
FnRaiseLogged(e) ==
    \E c \in inflight[e] :
      /\ c.phase = "L73"
      /\ inflight' = [inflight EXCEPT ![e] = @ \ {c}]
      /\ call_log' = [call_log EXCEPT ![e] = Append(@, CallRecord(c.in, None))]
      /\ IF InScript(e)
         THEN \E h \in {"none", "resume"} : Deliver(e, ToolFault, h)
         ELSE UNCHANGED << rpc, fault, unhandled, loopVars >>
      /\ UNCHANGED << calcVars, eval_value, evals, procVars, redirVars, pc, inputVars, result, issued, completed,
                      script_saw, bufVars, elapsed >>

\* line 73: tool.fn raises; the fault leaves the wrapper and arrives in the script
\* (if the script is still there to receive it)
FnRaise(e) ==
    \E c \in inflight[e] :
      /\ c.phase = "L73"
      /\ inflight' = [inflight EXCEPT ![e] = @ \ {c}]
      /\ IF InScript(e)
         THEN \E h \in {"none", "resume"} : Deliver(e, ToolFault, h)
         ELSE UNCHANGED << rpc, fault, unhandled, loopVars >>
      /\ UNCHANGED << calcVars, eval_value, evals, procVars, redirVars, pc, inputVars, result, issued, completed,
                      script_saw, call_log, bufVars, elapsed >>

\* lines 90-92: the record gets its result, is appended, and the result is returned
WrapperAppend(e) ==
    \E c \in inflight[e] :
      /\ c.phase = "L90"
      /\ call_log' = [call_log EXCEPT ![e] = LogAppend(@, CallRecord(c.in, c.result))]
      /\ script_saw' = [script_saw EXCEPT ![e] = Append(@, [id |-> c.id, value |-> c.result])]
      /\ inflight' = [inflight EXCEPT ![e] = @ \ {c}]
      /\ UNCHANGED << calcVars, eval_value, evals, procVars, redirVars, pc, inputVars, rpc, fault, result, issued,
                      completed, bufVars, loopVars, elapsed, unhandled >>

----------------------------------------------------------------------------
(* _timeout_handler, lines 334-335: SIGALRM is delivered to the main       *)
(* thread, which raises _TimeoutError at whatever line it is executing.    *)

AlarmFire(e) ==
    /\ alarm_pending
    /\ sig_handler = e
    /\ pc[e] = "L340"
    /\ alarm_pending' = FALSE
    /\ elapsed' = [elapsed EXCEPT ![e] = TRUE]
    /\ \/ \* before the try of _run is entered: nothing catches it
          /\ rpc[e] = "L297"
          /\ rpc' = [rpc EXCEPT ![e] = "escaped"]
          /\ fault' = [fault EXCEPT ![e] = TimeoutFault]
          /\ UNCHANGED << pc, sig_handler, inflight, unhandled, loopVars >>
       \/ \* inside the script; a wrapper running on this thread is abandoned
          /\ InScript(e)
          /\ inflight' = [inflight EXCEPT ![e] = IF conc[e] THEN @ ELSE {}]
          /\ \E h \in {"none", "resume", "leave"} : Deliver(e, TimeoutFault, h)
          /\ UNCHANGED << pc, sig_handler >>
       \/ \* at the end of the with block, normal or already unwinding
          /\ rpc[e] \in {"exit", "unwind"}
          /\ rpc' = [rpc EXCEPT ![e] = "unwind"]
          /\ fault' = [fault EXCEPT ![e] = TimeoutFault]
          /\ UNCHANGED << pc, sig_handler, inflight, unhandled, loopVars >>
       \/ \* inside the except Exception clause: its sibling clause does not catch it
          /\ rpc[e] \in {"L308", "L309", "L311"}
          /\ rpc' = [rpc EXCEPT ![e] = "escaped"]
          /\ fault' = [fault EXCEPT ![e] = TimeoutFault]
          /\ UNCHANGED << pc, sig_handler, inflight, unhandled, loopVars >>
       \/ \* after _run, before signal.alarm(0): raised in the finally block, whose
          \* remaining lines (342-343) do not run
          /\ RunOver(e)
          /\ pc' = [pc EXCEPT ![e] = "raised"]
          /\ fault' = [fault EXCEPT ![e] = TimeoutFault]
          /\ UNCHANGED << rpc, sig_handler, inflight, unhandled, loopVars >>
    /\ UNCHANGED << calcVars, eval_value, evals, sys_stdout, sys_stderr, redirVars, inputVars, result, issued, completed,
                    script_saw, call_log, bufVars >>

----------------------------------------------------------------------------
(* The specifications.                                                     *)

\* what the calling thread of execute_code does
Supervisor(e) ==
    \/ Call(e) \/ Arm(e) \/ Disarm(e) \/ StartWorker(e) \/ JoinDone(e) \/ IsAlive(e)
    \/ SupSetSuccess(e) \/ SupSetError(e) \/ Collect(e)

\* what the thread running _run does (the calling thread itself under the
\* interrupt-based strategy), tool threads included
Runner(e) ==
    \/ RunEnter(e) \/ ScriptPrint(e) \/ ScriptRaise(e) \/ ScriptLoop(e)
    \/ ScriptFinishBody(e) \/ ScriptFinishExpr(e) \/ RunExit(e)
    \/ RunTimeoutSuccess(e) \/ RunTimeoutError(e)
    \/ RunFaultSuccess(e) \/ RunFaultError(e) \/ RunFaultTraceback(e)
    \/ ScriptCall(e) \/ FnReturn(e) \/ FnRaise(e) \/ WrapperAppend(e)

Next == \E e \in Execs : Supervisor(e) \/ Runner(e) \/ AlarmFire(e) \/ JoinTimeout(e)

Spec == Init /\ [][Next]_vars

\* two execute_code calls made by the host on different threads, overlapping or not
ConcInit == InitWith("concurrent") /\ CalcIdle

ConcSpec == ConcInit /\ [][Next]_vars

\* one execute_code call on a platform that may lack SIGALRM
PlatInit == InitWith("platform") /\ CalcIdle

PlatSpec == PlatInit /\ [][Next]_vars

\* The scheduling the liveness claims rest on: every thread that can take a step
\* eventually takes one, an armed alarm eventually goes off, and a join with a
\* timeout eventually returns.
Fairness ==
    \A e \in Execs :
        /\ WF_vars(Supervisor(e))
        /\ WF_vars(Runner(e))
        /\ WF_vars(AlarmFire(e))
        /\ WF_vars(JoinTimeout(e))

FairSpec == Init /\ [][Next]_vars /\ Fairness

----------------------------------------------------------------------------
(* ExecutionResult.to_string, lines 41-53.  A Python str is a sequence of  *)
(* pieces of text; the empty str is the empty sequence.                    *)

\* the str a buffer holds
Text(buf) == [i \in DOMAIN buf |-> buf[i].text]

DigitChars == << "0", "1", "2", "3", "4", "5", "6", "7", "8", "9" >>

\* the decimal digits of a natural number
RECURSIVE NatStr(_)
NatStr(n) == IF n < 10 THEN << DigitChars[n + 1] >>
             ELSE Append(NatStr(n \div 10), DigitChars[(n % 10) + 1])

\* repr() of None, of an int and of a str (quoted)
Repr(v) ==
    CASE v.t = "NoneType" -> << "None" >>
      [] v.t = "int" -> IF v.v < 0 THEN << "-" >> \o NatStr(0 - v.v) ELSE NatStr(v.v)
      [] v.t = "str" -> << "'" >> \o v.s \o << "'" >>

\* a to_string that on failure prefers the description to the error stream
to_string_error_first(r) ==
    IF r.success
    THEN IF r.output # <<>> THEN Text(r.output)
         ELSE IF r.return_value # None THEN Repr(r.return_value)
         ELSE <<>>
    ELSE IF r.error # None /\ r.error.s # <<>> THEN r.error.s
         ELSE IF r.error_output # <<>> THEN Text(r.error_output)
         ELSE << "Unknown error" >>

\* a to_string that tests the trailing value for truth instead of for None
to_string_truthy(r) ==
    IF r.success
    THEN IF r.output # <<>> THEN Text(r.output)
         ELSE IF r.return_value \notin {None, PyInt(0), PyStr(<<>>)} THEN Repr(r.return_value)
         ELSE <<>>
    ELSE IF r.error_output # <<>> THEN Text(r.error_output)
         ELSE IF r.error # None /\ r.error.s # <<>> THEN r.error.s
         ELSE << "Unknown error" >>

\* lines 47-53
to_string(r) ==
    IF r.success
    THEN IF r.output # <<>> THEN Text(r.output)
         ELSE IF r.return_value # None THEN Repr(r.return_value)
         ELSE <<>>
    ELSE IF r.error_output # <<>> THEN Text(r.error_output)
         ELSE IF r.error # None /\ r.error.s # <<>> THEN r.error.s
         ELSE << "Unknown error" >>

\* lines 41-53, the method: it reads the fields and returns a str
ToStringResult(r) == PyStr(to_string(r))

\* the results a host can hold: every combination of field values, the
\* ones execute_code returns and the ones built directly (as the tests do)
Results ==
    [ output       : {<<>>, << [src |-> "A", text |-> "hello"] >>},
      error_output : {<<>>, << [src |-> "A", text |-> "Traceback"] >>},
      return_value : ManyValues,
      tool_calls   : {<<>>},
      success      : BOOLEAN,
      error        : {None, PyStr(<<>>), PyStr(<< "NameError", ": ", "x" >>)} ]

\* the host calls result.to_string()
ToStringCall ==
    /\ shown' = ToStringResult(res)
    /\ UNCHANGED << res, restOfView >>

ViewInit ==
    /\ InitWith("to_string")
    /\ res \in Results
    /\ shown = Unset
    /\ IdleButView

ViewNext == ToStringCall

ViewSpec == ViewInit /\ [][ViewNext]_vars

----------------------------------------------------------------------------
(* The import guard, lines 192-229.  A module name is the sequence of its  *)
(* dot-separated components: urllib.parse is << "urllib", "parse" >>.      *)

\* lines 193-200
SAFE_MODULES ==
    { << "asyncio" >>, << "json" >>, << "math" >>, << "re" >>, << "datetime" >>, << "time" >>,
      << "calendar" >>, << "collections" >>, << "itertools" >>, << "functools" >>,
      << "operator" >>, << "bisect" >>, << "heapq" >>, << "typing" >>, << "types" >>,
      << "dataclasses" >>, << "enum" >>, << "abc" >>, << "string" >>, << "textwrap" >>,
      << "pprint" >>, << "copy" >>, << "io" >>, << "random" >>, << "statistics" >>,
      << "decimal" >>, << "fractions" >>, << "base64" >>, << "hashlib" >>, << "uuid" >>,
      << "urllib", "parse" >>, << "concurrent", "futures" >> }

\* line 203: {mod.split(".")[0] for mod in _SAFE_MODULES if "." in mod}
SAFE_PARENT_PACKAGES == { << m[1] >> : m \in {x \in SAFE_MODULES : Len(x) > 1} }

\* the modules the interpreter can find: the allowed ones, their parents, and others
Installed ==
    SAFE_MODULES \cup SAFE_PARENT_PACKAGES \cup
    { << "os" >>, << "os", "path" >>, << "sys" >>, << "subprocess" >>, << "socket" >>,
      << "urllib", "request" >>, << "urllib", "error" >>, << "json", "tool" >>,
      << "json", "decoder" >>, << "collections", "abc" >>,
      << "concurrent", "futures", "thread" >> }

\* deepest relative import tried
MaxLevel == 1

\* the calls the import statements of a script make: `import a.b` passes the dotted
\* name and no fromlist, `from a import b` passes a and the fromlist (b,), a leading
\* dot gives level 1
Requests ==
    [ name     : Installed \cup { << "nosuchmodule" >> },
      fromlist : { {} } \cup { {x} : x \in {"parse", "request", "tool", "futures", "dumps"} },
      level    : 0..MaxLevel ]

\* builtins.__import__ at level 0: loads the named module with the packages above it,
\* and each fromlist entry that is a submodule of it
BuiltinImport(name, fromlist) ==
    ({ SubSeq(name, 1, k) : k \in 1..Len(name) } \cup { name \o << f >> : f \in fromlist })
        \cap Installed

\* the characters of the components of the allowlisted names
Spelling ==
    [
      asyncio     |-> << "a", "s", "y", "n", "c", "i", "o" >>,
      json        |-> << "j", "s", "o", "n" >>,
      math        |-> << "m", "a", "t", "h" >>,
      re          |-> << "r", "e" >>,
      datetime    |-> << "d", "a", "t", "e", "t", "i", "m", "e" >>,
      time        |-> << "t", "i", "m", "e" >>,
      calendar    |-> << "c", "a", "l", "e", "n", "d", "a", "r" >>,
      collections |-> << "c", "o", "l", "l", "e", "c", "t", "i", "o", "n", "s" >>,
      itertools   |-> << "i", "t", "e", "r", "t", "o", "o", "l", "s" >>,
      functools   |-> << "f", "u", "n", "c", "t", "o", "o", "l", "s" >>,
      operator    |-> << "o", "p", "e", "r", "a", "t", "o", "r" >>,
      bisect      |-> << "b", "i", "s", "e", "c", "t" >>,
      heapq       |-> << "h", "e", "a", "p", "q" >>,
      typing      |-> << "t", "y", "p", "i", "n", "g" >>,
      types       |-> << "t", "y", "p", "e", "s" >>,
      dataclasses |-> << "d", "a", "t", "a", "c", "l", "a", "s", "s", "e", "s" >>,
      enum        |-> << "e", "n", "u", "m" >>,
      abc         |-> << "a", "b", "c" >>,
      string      |-> << "s", "t", "r", "i", "n", "g" >>,
      textwrap    |-> << "t", "e", "x", "t", "w", "r", "a", "p" >>,
      pprint      |-> << "p", "p", "r", "i", "n", "t" >>,
      copy        |-> << "c", "o", "p", "y" >>,
      io          |-> << "i", "o" >>,
      random      |-> << "r", "a", "n", "d", "o", "m" >>,
      statistics  |-> << "s", "t", "a", "t", "i", "s", "t", "i", "c", "s" >>,
      decimal     |-> << "d", "e", "c", "i", "m", "a", "l" >>,
      fractions   |-> << "f", "r", "a", "c", "t", "i", "o", "n", "s" >>,
      base64      |-> << "b", "a", "s", "e", "6", "4" >>,
      hashlib     |-> << "h", "a", "s", "h", "l", "i", "b" >>,
      uuid        |-> << "u", "u", "i", "d" >>,
      urllib      |-> << "u", "r", "l", "l", "i", "b" >>,
      parse       |-> << "p", "a", "r", "s", "e" >>,
      concurrent  |-> << "c", "o", "n", "c", "u", "r", "r", "e", "n", "t" >>,
      futures     |-> << "f", "u", "t", "u", "r", "e", "s" >> ]

\* the characters names are made of, in the order of their code points
Alphabet ==
    << ".", "0", "1", "2", "3", "4", "5", "6", "7", "8", "9", "_",
       "a", "b", "c", "d", "e", "f", "g", "h", "i", "j", "k", "l", "m",
       "n", "o", "p", "q", "r", "s", "t", "u", "v", "w", "x", "y", "z" >>

Ord(c) == CHOOSE i \in DOMAIN Alphabet : Alphabet[i] = c

\* the str of a module name: its components joined by dots
RECURSIVE Chars(_)
Chars(name) ==
    IF Len(name) = 1 THEN Spelling[name[1]]
    ELSE Spelling[name[1]] \o << "." >> \o Chars(Tail(name))

\* a < b on str: the first differing character decides, a proper prefix is smaller
RECURSIVE StrLess(_, _)
StrLess(a, b) ==
    IF b = <<>> THEN FALSE
    ELSE IF a = <<>> THEN TRUE
    ELSE IF Head(a) # Head(b) THEN Ord(Head(a)) < Ord(Head(b))
    ELSE StrLess(Tail(a), Tail(b))

\* line 225, sorted(): the names of S in ascending order
RECURSIVE Sorted(_)
Sorted(S) ==
    IF S = {} THEN <<>>
    ELSE LET least == CHOOSE x \in S : \A y \in S \ {x} : StrLess(Chars(x), Chars(y))
         IN  << least >> \o Sorted(S \ {least})

\* line 228, ', '.join(): the names with a separator between neighbours
RECURSIVE Join(_)
Join(names) ==
    IF Len(names) <= 1 THEN names
    ELSE << Head(names), << ", " >> >> \o Join(Tail(names))

\* line 225
Available == Sorted(SAFE_MODULES)

\* lines 206-229; a message is the sequence of its pieces, each a sequence of strings
safe_import(name, fromlist, level) ==
    IF level # 0
    THEN [status |-> "ImportError", msg |-> << << "Relative imports are not allowed" >> >>,
          loaded |-> {}]
    ELSE IF name \in SAFE_MODULES
    THEN [status |-> "ok", msg |-> <<>>, loaded |-> BuiltinImport(name, fromlist)]
    ELSE IF name \in SAFE_PARENT_PACKAGES
    THEN [status |-> "ok", msg |-> <<>>, loaded |-> BuiltinImport(name, fromlist)]
    ELSE [status |-> "ImportError",
          msg |-> << << "Import of '" >>, name, << "' is not allowed. Available modules: " >> >>
                      \o Join(Available),
          loaded |-> {}]

\* the script executes an import statement
ImportCall ==
    /\ imported' = safe_import(request.name, request.fromlist, request.level)
    /\ UNCHANGED << request, script_result, restOfImport >>

\* lines 300 and 307-312, 355-359: the statement was the whole script; an ImportError
\* that left it is reported as any fault is, type name and message in `error`
ImportReport ==
    /\ imported # Unset
    /\ script_result = Unset
    /\ script_result' =
          IF imported.status = "ok"
          THEN [output |-> <<>>, error_output |-> <<>>, return_value |-> None,
                tool_calls |-> <<>>, success |-> TRUE, error |-> None]
          ELSE [output |-> <<>>, error_output |-> << << "Traceback" >> >> \o imported.msg,
                return_value |-> None, tool_calls |-> <<>>, success |-> FALSE,
                error |-> PyStr(<< << imported.status >>, << ": " >> >> \o imported.msg)]
    /\ UNCHANGED << request, imported, restOfImport >>

ImportInit ==
    /\ InitWith("import")
    /\ request \in Requests
    /\ imported = Unset
    /\ script_result = Unset
    /\ IdleButImport

ImportNext == ImportCall \/ ImportReport

ImportSpec == ImportInit /\ [][ImportNext]_vars

----------------------------------------------------------------------------
(* The restricted namespace, lines 251-268, over several executions of one *)
(* script.  The script reads a place, writes it, and ends in the value it  *)
(* read: `seen = <place>; <place> = v; seen`.                              *)

\* executions of the script
MaxRuns == 2

\* lines 261-264
PreInjected == {"json", "asyncio", "math", "re"}

Absent == [t |-> "absent"]
ModuleRef(m) == [t |-> "module", name |-> m]
Builtin(n) == [t |-> "builtin", name |-> n]

\* lines 100-189, two of its keys and one name that is not a key
SAFE_BUILTINS == [len |-> Builtin("len"), print |-> Builtin("print"), mark |-> Absent]

\* the places a script can write: a global name, a key of __builtins__, an attribute
\* of a pre-injected module (a new one, or one the module has)
Places ==
    { [kind |-> "global", owner |-> "", name |-> "x"] }
    \cup [kind : {"builtin"}, owner : {""}, name : {"len", "mark"}]
    \cup [kind : {"attr"}, owner : PreInjected, name : {"mark", "__doc__"}]

Scripts == [place : Places, value : {PyInt(1), PyInt(2)}]

\* the modules as the interpreter loaded them
FreshModules == [m \in PreInjected |-> [a \in {"mark", "__doc__"} |->
                    IF a = "mark" THEN Absent ELSE PyStr(<< "doc of ", m >>)]]

\* lines 247-270: a new dict, a copy of _SAFE_BUILTINS, the process's own module objects
BuildNamespace ==
    /\ sb_pc = "idle"
    /\ Len(sb_results) < MaxRuns
    /\ namespace' = [n \in PreInjected \cup {"x", "__builtins__"} |->
                        IF n \in PreInjected THEN ModuleRef(n)
                        ELSE IF n = "__builtins__" THEN [t |-> "dict", items |-> SAFE_BUILTINS]
                        ELSE Absent]
    /\ seen' = Absent
    /\ sb_pc' = "built"
    /\ UNCHANGED << sb_script, module_attrs, sb_results, restOfSandbox >>

\* the value at a place: namespace[x], namespace["__builtins__"][k], getattr(module, a)
ReadPlace(pl) ==
    CASE pl.kind = "global"  -> namespace[pl.name]
      [] pl.kind = "builtin" -> namespace["__builtins__"].items[pl.name]
      [] pl.kind = "attr"    -> module_attrs[namespace[pl.owner].name][pl.name]

\* line 300, the script's first statement
ScriptRead ==
    /\ sb_pc = "built"
    /\ seen' = ReadPlace(sb_script.place)
    /\ sb_pc' = "read"
    /\ UNCHANGED << sb_script, namespace, module_attrs, sb_results,
                    restOfSandbox >>

\* line 300, the script's second statement: a store into the namespace, into the
\* builtins dict of the namespace, or setattr on the module object the name refers to
ScriptWrite ==
    /\ sb_pc = "read"
    /\ LET pl == sb_script.place
           v  == sb_script.value
       IN  CASE pl.kind = "global" ->
                  /\ namespace' = [namespace EXCEPT ![pl.name] = v]
                  /\ UNCHANGED module_attrs
             [] pl.kind = "builtin" ->
                  /\ namespace' = [namespace EXCEPT !["__builtins__"].items[pl.name] = v]
                  /\ UNCHANGED module_attrs
             [] pl.kind = "attr" ->
                  /\ module_attrs' = [module_attrs EXCEPT ![namespace[pl.owner].name][pl.name] = v]
                  /\ UNCHANGED namespace
    /\ sb_pc' = "written"
    /\ UNCHANGED << sb_script, seen, sb_results, restOfSandbox >>

\* lines 302-303 and 355-359: the trailing expression `seen` is the return value; the
\* namespace goes out of scope
ReturnResult ==
    /\ sb_pc = "written"
    /\ sb_results' = Append(sb_results, [DefaultResult EXCEPT !.return_value = seen])
    /\ namespace' = Unset
    /\ sb_pc' = "idle"
    /\ UNCHANGED << sb_script, module_attrs, seen, restOfSandbox >>

SandboxInit ==
    /\ InitWith("namespace")
    /\ sb_script \in Scripts
    /\ sb_pc = "idle"
    /\ namespace = Unset
    /\ module_attrs = FreshModules
    /\ seen = Unset
    /\ sb_results = <<>>
    /\ IdleButSandbox

SandboxNext == BuildNamespace \/ ScriptRead \/ ScriptWrite \/ ReturnResult

SandboxSpec == SandboxInit /\ [][SandboxNext]_vars

----------------------------------------------------------------------------
(* The wrapper's handling of asynchronous tools, lines 66-92: one call of  *)
(* a wrapper, in a thread that may be running an event loop.               *)

\* suspension points of the coroutine
MaxAwaits == 2

\* the coroutine object tool.fn returns when it is an `async def`
CoroObj == [t |-> "coroutine"]

\* the calls: is a loop running in the calling thread, is the tool asynchronous, the
\* value it computes, how often its coroutine suspends, and whether it ever finishes
AsyncCalls ==
    [ loop : BOOLEAN, async : BOOLEAN, value : {None, PyInt(7), PyStr(<< "a" >>)},
      awaits : 0..MaxAwaits, hangs : BOOLEAN ]

\* a wrapper that always resolves in the calling thread
NeverPool(loop) == FALSE

\* line 82: `loop and loop.is_running()`
UsePool(loop) == loop

\* line 73
CallFn ==
    /\ aw_pc = "L73"
    /\ aw_result' = IF aw_in.async THEN CoroObj ELSE aw_in.value
    /\ coro' = IF aw_in.async THEN [state |-> "created", left |-> aw_in.awaits, on |-> "none"]
                ELSE coro
    /\ aw_pc' = "L76"
    /\ UNCHANGED << aw_in, running_loops, aw_log, aw_ret, restOfAsync >>

\* lines 76-88: a plain value goes on to line 90; a coroutine is handed to asyncio.run,
\* in a thread of a new pool or in the calling thread.  asyncio.run raises RuntimeError
\* in a thread that is running a loop, and otherwise starts a loop there.
Dispatch ==
    /\ aw_pc = "L76"
    /\ IF aw_result # CoroObj
       THEN /\ aw_pc' = "L90"
            /\ UNCHANGED << coro, running_loops >>
       ELSE LET t == IF UsePool(running_loops["caller"] > 0) THEN "pool" ELSE "caller"
            IN  IF running_loops[t] > 0
                THEN /\ aw_pc' = "raised"
                     /\ UNCHANGED << coro, running_loops >>
                ELSE /\ running_loops' = [running_loops EXCEPT ![t] = @ + 1]
                     /\ coro' = [coro EXCEPT !.state = "running", !.on = t]
                     /\ aw_pc' = IF t = "pool" THEN "L86" ELSE "L88"
    /\ UNCHANGED << aw_in, aw_result, aw_log, aw_ret, restOfAsync >>

\* the coroutine runs to its next suspension point, or to its end; at the end
\* asyncio.run closes the loop it started
CoroStep ==
    /\ coro # Unset /\ coro.state = "running"
    /\ ~aw_in.hangs
    /\ IF coro.left > 0
       THEN /\ coro' = [coro EXCEPT !.left = @ - 1]
            /\ UNCHANGED running_loops
       ELSE /\ coro' = [coro EXCEPT !.state = "done"]
            /\ running_loops' = [running_loops EXCEPT ![coro.on] = @ - 1]
    /\ UNCHANGED << aw_in, aw_pc, aw_result, aw_log, aw_ret, restOfAsync >>

\* lines 86 and 88: .result() / asyncio.run() return what the coroutine returned
RunReturns ==
    /\ aw_pc \in {"L86", "L88"}
    /\ coro.state = "done"
    /\ aw_result' = aw_in.value
    /\ aw_pc' = "L90"
    /\ UNCHANGED << aw_in, coro, running_loops, aw_log, aw_ret, restOfAsync >>

\* lines 90-91
RecordCall ==
    /\ aw_pc = "L90"
    /\ aw_log' = Append(aw_log, [name |-> ToolName, result |-> aw_result])
    /\ aw_pc' = "L92"
    /\ UNCHANGED << aw_in, aw_result, coro, running_loops, aw_ret, restOfAsync >>

\* line 92
ReturnToScript ==
    /\ aw_pc = "L92"
    /\ aw_ret' = aw_result
    /\ aw_pc' = "returned"
    /\ UNCHANGED << aw_in, aw_result, coro, running_loops, aw_log, restOfAsync >>

AsyncInit ==
    /\ InitWith("wrapper")
    /\ aw_in \in AsyncCalls
    /\ aw_pc = "L73"
    /\ aw_result = Unset
    /\ coro = Unset
    /\ running_loops = [t \in {"caller", "pool"} |-> IF t = "caller" /\ aw_in.loop THEN 1 ELSE 0]
    /\ aw_log = <<>>
    /\ aw_ret = Unset
    /\ IdleButAsync

AsyncNext == CallFn \/ Dispatch \/ CoroStep \/ RunReturns \/ RecordCall \/ ReturnToScript

AsyncSpec == AsyncInit /\ [][AsyncNext]_vars

\* the threads involved are scheduled: whatever can run, eventually runs
AsyncFairSpec == AsyncSpec /\ WF_vars(AsyncNext)

----------------------------------------------------------------------------
(* What a script can reach from the restricted namespace, lines 99-268, by *)
(* name lookup, import, attribute access, subscription and call.           *)

\* lines 253-264: the names a script starts with (some of the built-ins, the
\* replaced __import__, the pre-injected modules)
Roots == {"print", "getattr", "__import__"} \cup PreInjected

\* the objects behind them, as the interpreter and its library provide them: an edge
\* leads from an object to what an attribute, a key ("[k]") or a call ("()") of it gives.
\* "file", "socket" and "process" stand for an open file, a connection, a child process.
ObjectGraph ==
    { [from |-> "io", via |-> "open", to |-> "io.open"],
      [from |-> "io", via |-> "FileIO", to |-> "io.FileIO"],
      [from |-> "io", via |-> "StringIO", to |-> "io.StringIO"],
      [from |-> "io.open", via |-> "()", to |-> "file"],
      [from |-> "io.FileIO", via |-> "()", to |-> "file"],
      [from |-> "io.StringIO", via |-> "()", to |-> "buffer"],
      [from |-> "asyncio", via |-> "create_subprocess_exec", to |-> "asyncio.create_subprocess_exec"],
      [from |-> "asyncio", via |-> "open_connection", to |-> "asyncio.open_connection"],
      [from |-> "asyncio.create_subprocess_exec", via |-> "()", to |-> "process"],
      [from |-> "asyncio.open_connection", via |-> "()", to |-> "socket"],
      [from |-> "math", via |-> "sqrt", to |-> "math.sqrt"],
      [from |-> "json", via |-> "dumps", to |-> "json.dumps"],
      [from |-> "__import__", via |-> "__globals__", to |-> "executor.__dict__"],
      [from |-> "executor.__dict__", via |-> "[_SAFE_MODULES]", to |-> "_SAFE_MODULES"],
      [from |-> "executor.__dict__", via |-> "[builtins]", to |-> "builtins"],
      [from |-> "builtins", via |-> "open", to |-> "io.open"],
      [from |-> "os", via |-> "system", to |-> "os.system"],
      [from |-> "os.system", via |-> "()", to |-> "process"],
      [from |-> "socket", via |-> "socket", to |-> "socket.socket"],
      [from |-> "socket.socket", via |-> "()", to |-> "socket"] }

\* the import statements the script tries
TriedImports == { << "io" >>, << "math" >>, << "os" >>, << "socket" >> }

\* lines 218 and 222, against the set as it is now
GuardAccepts(name) == name \in safe_modules \/ name \in SAFE_PARENT_PACKAGES

\* line 300: the script evaluates obj.attr, obj[key] or obj()
ScriptFollow ==
    /\ \E edge \in ObjectGraph :
         /\ edge.from \in held
         /\ edge.to \notin held
         /\ held' = held \cup { edge.to }
    /\ UNCHANGED << safe_modules, restOfReach >>

\* line 300 and lines 206-229: the script executes `import m`; a refused import
\* leaves it with what it had
ScriptImport ==
    /\ \E name \in TriedImports :
         /\ GuardAccepts(name)
         /\ name[1] \notin held
         /\ held' = held \cup { name[1] }
    /\ UNCHANGED << safe_modules, restOfReach >>

\* line 300: the script calls .add(name) on the set object it holds
ScriptSetAdd ==
    /\ "_SAFE_MODULES" \in held
    /\ \E name \in TriedImports :
         /\ name \notin safe_modules
         /\ safe_modules' = safe_modules \cup { name }
    /\ UNCHANGED << held, restOfReach >>

\* lines 359 and 247-268: the execution returns and the host makes the next one
NextExecution ==
    /\ held # Roots
    /\ held' = Roots
    /\ UNCHANGED << safe_modules, restOfReach >>

ReachInit ==
    /\ InitWith("reach")
    /\ held = Roots
    /\ safe_modules = SAFE_MODULES
    /\ IdleButReach

ReachNext == ScriptFollow \/ ScriptImport \/ ScriptSetAdd \/ NextExecution

ReachSpec == ReachInit /\ [][ReachNext]_vars

----------------------------------------------------------------------------
(* Toolkit.extract_code, toolkit.py lines 156-174.  A text is the sequence *)
(* of its lines; a fence is a line that starts with three backticks,      *)
(* written "<fence>" here.                                                 *)

\* passages of a response
MaxSegments == 3

\* the responses: up to MaxSegments passages, each a line of prose or a fenced block
\* (opened by a fence tagged python, untagged, or tagged json; closed by a bare fence)
Segments ==
    { [open |-> "", body |-> << "prose" >>] } \cup
    [ open : {"<fence>python", "<fence>", "<fence>json"},
      body : { << "x = 1" >>, << "", "y = 2", "" >>, << "z = 3", "", "z" >> } ]

Responses == UNION { [1..n -> Segments] : n \in 0..MaxSegments }

\* the lines of a response
RECURSIVE Lines(_)
Lines(doc) ==
    IF doc = <<>> THEN <<>>
    ELSE (IF Head(doc).open = "" THEN Head(doc).body
          ELSE << Head(doc).open >> \o Head(doc).body \o << "<fence>" >>) \o Lines(Tail(doc))

\* str.strip() on a text: blank lines at either end go
RECURSIVE Strip(_)
Strip(text) ==
    IF text = <<>> THEN <<>>
    ELSE IF Head(text) = "" THEN Strip(Tail(text))
    ELSE IF text[Len(text)] = "" THEN Strip(SubSeq(text, 1, Len(text) - 1))
    ELSE text

\* re.search(opener + r"\s*\n(.*?)```", text, re.DOTALL): the leftmost line that is
\* `opener` and has a fence after it, and group(1), the lines up to the nearest such fence
Search(text, opener) ==
    LET IsFence(i) == text[i] \in {"<fence>python", "<fence>", "<fence>json"}
        starts == { i \in DOMAIN text : text[i] = opener /\ \E j \in DOMAIN text : j > i /\ IsFence(j) }
    IN  IF starts = {} THEN None
        ELSE LET i == CHOOSE x \in starts : \A y \in starts : x <= y
                 j == CHOOSE x \in DOMAIN text :
                        /\ x > i /\ IsFence(x)
                        /\ \A y \in DOMAIN text : (y > i /\ IsFence(y)) => x <= y
             IN  PyStr(SubSeq(text, i + 1, j - 1))

\* toolkit.py lines 162-174
extract_code(text) ==
    IF Search(text, "<fence>python") # None THEN PyStr(Strip(Search(text, "<fence>python").s))
    ELSE IF Search(text, "<fence>") # None THEN PyStr(Strip(Search(text, "<fence>").s))
    ELSE None

\* the host calls toolkit.extract_code(llm_response)
ExtractCode ==
    /\ extracted = Unset
    /\ extracted' = extract_code(Lines(llm_response))
    /\ UNCHANGED << llm_response, restOfExtract >>

ExtractInit ==
    /\ InitWith("extract_code")
    /\ llm_response \in Responses
    /\ extracted = Unset
    /\ IdleButExtract

ExtractNext == ExtractCode

ExtractSpec == ExtractInit /\ [][ExtractNext]_vars

----------------------------------------------------------------------------
(* The split of a script into body and trailing expression, lines 272-293, *)
(* and what lines 299-303 run of it.  The scripts raise no fault.          *)

\* top-level statements of a script
MaxStmts == 2

\* a statement as written: what it is (a bare expression, an assignment, an if
\* statement), which one, and whether a comment follows it on its line
Statements == [kind : {"expr", "assign", "if"}, n : 1..2, note : BOOLEAN]

\* script texts: ones that do not parse, and sequences of statements
SplitScripts ==
    { [parses |-> FALSE, stmts |-> <<>>] } \cup
    [ parses : {TRUE}, stmts : UNION { [1..k -> Statements] : k \in 0..MaxStmts } ]

\* ast.parse: the nodes of the statements; comments are not part of the tree
Parse(stmts) == [i \in DOMAIN stmts |-> [kind |-> stmts[i].kind, n |-> stmts[i].n]]

\* ast.unparse: source text for the nodes, without comments
Unparse(nodes) == [i \in DOMAIN nodes |-> [kind |-> nodes[i].kind, n |-> nodes[i].n, note |-> FALSE]]

\* a splitter that takes the last statement whatever it is
IsAnyStmt(node) == TRUE

\* line 285: isinstance(tree.body[-1], ast.Expr)
IsExpr(node) == node.kind = "expr"

\* lines 274-293
SplitCode ==
    /\ sp_pc = "L274"
    /\ IF ~sp_code.parses
       THEN /\ sp_pc' = "returned"
            /\ UNCHANGED << sp_body, sp_expr >>
       ELSE LET tree == Parse(sp_code.stmts)
            IN  /\ sp_pc' = "L299"
                /\ IF tree # <<>> /\ IsExpr(tree[Len(tree)])
                   THEN /\ sp_body' = IF Len(tree) > 1
                                      THEN PyStr(Unparse(SubSeq(tree, 1, Len(tree) - 1)))
                                      ELSE None
                        /\ sp_expr' = PyStr(Unparse(<< tree[Len(tree)] >>))
                   ELSE /\ sp_body' = PyStr(sp_code.stmts)
                        /\ sp_expr' = None
    /\ UNCHANGED << sp_code, sp_ran, sp_evald, sp_value, restOfSplit >>

\* lines 299-300: `if body_code: exec(body_code, namespace)`
RunBody ==
    /\ sp_pc = "L299"
    /\ sp_ran' = IF sp_body # None /\ sp_body.s # <<>> THEN Parse(sp_body.s) ELSE <<>>
    /\ sp_pc' = "L301"
    /\ UNCHANGED << sp_code, sp_body, sp_expr, sp_evald, sp_value, restOfSplit >>

\* lines 301-303: `if last_expr_code: val = eval(...); result.return_value = val`;
\* statement n evaluates to n
RunExpr ==
    /\ sp_pc = "L301"
    /\ IF sp_expr # None /\ sp_expr.s # <<>>
       THEN /\ sp_evald' = Parse(sp_expr.s)
            /\ sp_value' = PyInt(sp_expr.s[1].n)
       ELSE UNCHANGED << sp_evald, sp_value >>
    /\ sp_pc' = "done"
    /\ UNCHANGED << sp_code, sp_body, sp_expr, sp_ran, restOfSplit >>

SplitInit ==
    /\ InitWith("splitter")
    /\ sp_code \in SplitScripts
    /\ sp_pc = "L274"
    /\ sp_body = Unset /\ sp_expr = Unset
    /\ sp_ran = <<>> /\ sp_evald = <<>>
    /\ sp_value = None
    /\ IdleButSplit

SplitNext == SplitCode \/ RunBody \/ RunExpr

SplitSpec == SplitInit /\ [][SplitNext]_vars

----------------------------------------------------------------------------
(* The deadline of the interrupt-based strategy, lines 337-339, on a clock *)
(* of TicksPerSecond ticks per second: the script never ends on its own    *)
(* and the alarm is what stops it.                                         *)

\* clock resolution
TicksPerSecond == 10
\* largest timeout argument, in ticks
MaxBudget == 30

\* the timeout arguments: every positive multiple of a tick up to MaxBudget
Budgets == 1..MaxBudget

\* Python's max of two numbers
Max(a, b) == IF a >= b THEN a ELSE b

\* int(timeout): a positive number of seconds truncated to whole seconds
IntOf(b) == b \div TicksPerSecond

\* line 339: the argument of signal.alarm, in whole seconds
AlarmSeconds(b) == Max(1, IntOf(b))

\* line 339: signal.alarm(max(1, int(timeout)))
SetAlarm ==
    /\ alarm_at = 0
    /\ alarm_at' = AlarmSeconds(budget) * TicksPerSecond
    /\ UNCHANGED << budget, now, timed_out, restOfTime >>

\* time passes while the script runs
Tick ==
    /\ alarm_at > 0
    /\ now < alarm_at
    /\ now' = now + 1
    /\ UNCHANGED << budget, alarm_at, timed_out, restOfTime >>

\* lines 334-335: the alarm goes off and _timeout_handler raises _TimeoutError,
\* which lines 304-306 report as the timeout
Expire ==
    /\ alarm_at > 0
    /\ now = alarm_at
    /\ ~timed_out
    /\ timed_out' = TRUE
    /\ UNCHANGED << budget, alarm_at, now, restOfTime >>

TimeInit ==
    /\ InitWith("timing")
    /\ budget \in Budgets
    /\ alarm_at = 0
    /\ now = 0
    /\ timed_out = FALSE
    /\ IdleButTime

TimeNext == SetAlarm \/ Tick \/ Expire

TimeSpec == TimeInit /\ [][TimeNext]_vars

----------------------------------------------------------------------------
(* Terms of the claims.                                                    *)

Returned(e) == pc[e] = "returned"

\* execute_code raised to its caller instead of returning
Raised(e) == pc[e] = "raised"

\* the failure description is present
HasError(e) == result[e].error # None

TimedOutResult(e) == ~result[e].success /\ result[e].error = TimeoutMsg

----------------------------------------------------------------------------
(* C1: execute_code never raises to its caller, and every fault that left  *)
(* the script unhandled yields success = false.                            *)
C1_NeverRaises ==
    \A e \in Execs :
        /\ ~Raised(e)
        /\ (Returned(e) /\ unhandled[e]) => ~result[e].success

(* C2: a script that does not finish on its own is eventually answered     *)
(* with the timeout result, under either strategy and whatever handlers    *)
(* the script has.                                                         *)
C2_BoundedTermination ==
    \A e \in Execs : [](diverges[e] => <>(Returned(e) /\ TimedOutResult(e)))

(* C3: in every returned result, success is false iff error is present.    *)
C3_SuccessIffNoError ==
    \A e \in Execs : Returned(e) => (~result[e].success <=> HasError(e))

(* C4: a returned result has success = true only if the execution reached  *)
(* Completed: _run finished, no fault left the script, and the budget had  *)
(* not elapsed.                                                            *)
C4_SuccessOnlyIfCompleted ==
    \A e \in Execs :
        (Returned(e) /\ result[e].success) =>
            (rpc[e] = "done" /\ ~unhandled[e] /\ ~elapsed[e])

(* C5: once execute_code has returned, no field of the result changes.     *)
C5_ResultImmutable ==
    [][\A e \in Execs : Returned(e) => View(e)' = View(e)]_vars

(* C6: text printed by one script never appears in the output or           *)
(* error_output of another execution's result, and every print a script    *)
(* made before its result was collected is in its own output.              *)
OnlyOwnText(e, buf) == \A i \in DOMAIN buf : buf[i].src = e

C6_OutputIsolation ==
    \A e \in Execs :
        Returned(e) =>
            /\ OnlyOwnText(e, result[e].output)
            /\ OnlyOwnText(e, result[e].error_output)
            /\ (rpc[e] = "done" => Len(result[e].output) = printed[e])

----------------------------------------------------------------------------
(* Terms of the claims about the call log.                                 *)

IsPrefix(s, t) == Len(s) <= Len(t) /\ SubSeq(t, 1, Len(s)) = s

\* the record call number id of the script should leave: its name, its inputs as
\* issued, and the value v
RecordFor(e, id, v) ==
    [name |-> "addNumbers", args |-> issued[e][id].args, kwargs |-> issued[e][id].kwargs,
     result |-> v]

\* the ids of the calls whose wrappers returned to the script, in that order
ReturnedIds(e) == [i \in 1..Len(script_saw[e]) |-> script_saw[e][i].id]

\* position of id in the order the callables returned (0: has not returned)
CompletedAt(e, id) ==
    IF \E k \in 1..Len(completed[e]) : completed[e][k] = id
    THEN CHOOSE k \in 1..Len(completed[e]) : completed[e][k] = id
    ELSE 0

\* every record of the log is the record of one wrapper return, in the order of
\* those returns, and no call is there twice
LogMatchesReturns(e) ==
    /\ Len(call_log[e]) = Len(script_saw[e])
    /\ \A i \in 1..Len(call_log[e]) :
          call_log[e][i] = RecordFor(e, script_saw[e][i].id, script_saw[e][i].value)
    /\ \A i, j \in 1..Len(script_saw[e]) :
          script_saw[e][i].id = script_saw[e][j].id => i = j

(* C7: a sequential script all of whose N calls returned leaves a log of   *)
(* exactly N records in issue order; record i holds the name, args, kwargs *)
(* of call i and the value that call returned to the script.               *)
C7_SequentialLog ==
    \A e \in Execs :
        (Returned(e) /\ ~conc[e] /\ Len(script_saw[e]) = Len(issued[e])) =>
            /\ Len(ToolCalls(e)) = Len(issued[e])
            /\ \A i \in 1..Len(issued[e]) :
                  /\ script_saw[e][i].id = i
                  /\ script_saw[e][i].value = ToolFn(issued[e][i])
                  /\ ToolCalls(e)[i] = RecordFor(e, i, script_saw[e][i].value)

C7_Witness ==
    \E e \in Execs :
        /\ Returned(e) /\ ~conc[e] /\ result[e].success
        /\ Len(issued[e]) = 2 /\ Len(script_saw[e]) = 2
        /\ issued[e][1] # issued[e][2]
        /\ Len(ToolCalls(e)) = 2

(* C8: under concurrent calls every wrapper that returns has contributed   *)
(* exactly one record, and a record once appended is never lost,           *)
(* duplicated, removed or moved.                                           *)
C8_LogAppendOnly ==
    /\ [](\A e \in Execs : LogMatchesReturns(e))
    /\ [][\A e \in Execs : IsPrefix(call_log[e], call_log[e]')]_vars

C8_Witness ==
    \E e \in Execs :
        /\ conc[e] /\ InScript(e)
        /\ Len(call_log[e]) = 2
        /\ ReturnedIds(e) = <<2, 1>>

ToolRaisedStep(e) ==
    \E c \in inflight[e] :
        /\ c.phase = "L73"
        /\ \A d \in inflight[e]' : d.id # c.id
        /\ completed[e]' = completed[e]
        /\ elapsed' = elapsed

C10_FailedCallNotLogged ==
    [][\A e \in Execs :
         /\ ToolRaisedStep(e) =>
                /\ call_log[e]' = call_log[e]
                /\ InScript(e) =>
                      \/ rpc[e]' = "unwind" /\ fault[e]' = ToolFault
                      \/ rpc[e]' = rpc[e] /\ fault[e]' = fault[e]
         /\ (rpc[e] = "L309" /\ rpc[e]' = "L311" /\ fault[e].type = "RuntimeError") =>
                result[e]'.error = PyStr(<<"RuntimeError", ": ", "tool broke">>)]_vars

C10_Witness ==
    \E e \in Execs :
        /\ rpc[e] = "L311" /\ fault[e] = ToolFault
        /\ Len(issued[e]) = 2
        /\ Len(call_log[e]) = 1

(* C11: the trailing expression is evaluated at most once, and exactly     *)
(* once when the with block ends normally; eval is entered only when the   *)
(* body statements (if any) have finished with no fault and no call of     *)
(* theirs outstanding; each capability call the expression makes runs its  *)
(* callable once and its single record is appended at the end of the log,  *)
(* after every record the body left there.                                 *)
EvalEntered(e) == evals[e]' = evals[e] + 1

NoRepeats(s) == \A i, j \in DOMAIN s : i # j => s[i] # s[j]

SyntaxInvalid(e) == Returned(e) /\ rpc[e] = "notstarted"

C13_WorkerTimeoutResult ==
    \A e \in Execs :
        (Returned(e) /\ ~UseSignal(host[e]) /\ elapsed[e]) => TimedOutResult(e)

(* C14: when an execution under the interrupt-based strategy has returned  *)
(* (with a success, a failure or the timeout result), no alarm is pending, *)
(* the SIGALRM handler is the one that was installed before the call, and  *)
(* so this execution's _timeout_handler can not be run any more.           *)
C14_AlarmDisarmedOnReturn ==
    \A e \in Execs :
        (Returned(e) /\ UseSignal(host[e])) =>
            /\ ~alarm_pending
            /\ sig_handler = original_handler[e]
            /\ sig_handler # e

\* returned with the timeout result after the alarm went off
C14_Witness ==
    \E e \in Execs :
        /\ Returned(e) /\ UseSignal(host[e])
        /\ elapsed[e] /\ TimedOutResult(e)

(* C15: an execution leaves line 331 by exactly one of the two strategies: *)
(* it arms the alarm (and runs _run itself) iff the platform has SIGALRM   *)
(* and the call is on the main thread with no event loop running, and it   *)
(* starts and joins a worker in every other case; a worker-based execution *)
(* never installs a handler or arms the alarm, and an interrupt-based one  *)
(* never joins a worker.                                                   *)
MainNoLoop(h) == h.main /\ ~h.loop /\ h.sigalrm

WorkerPositions == {"L350", "L351", "L352", "L353"}

C15_OneStrategy ==
    /\ [](\A e \in Execs :
            /\ pc[e] = "L340" => MainNoLoop(host[e])
            /\ pc[e] \in WorkerPositions => ~MainNoLoop(host[e])
            /\ sig_handler = e => MainNoLoop(host[e])
            /\ (elapsed[e] /\ ~MainNoLoop(host[e])) => sig_handler = "orig")
    /\ [][\A e \in Execs :
            (pc[e] = "L331" /\ pc[e]' # "L331") =>
                IF MainNoLoop(host[e])
                THEN pc[e]' = "L340" /\ alarm_pending' /\ sig_handler' = e
                ELSE pc[e]' = "L350" /\ UNCHANGED << alarm_pending, sig_handler >>]_vars

\* on the main thread, no loop running, but a platform without SIGALRM: the
\* worker's join timed out
C15_Witness ==
    \E e \in Execs :
        /\ host[e] = [main |-> TRUE, loop |-> FALSE, sigalrm |-> FALSE]
        /\ pc[e] = "L352"

(* C16: under the interrupt-based strategy the alarm armed for a budget of *)
(* B seconds is not earlier than B, for every positive B (whole or not,    *)
(* below 1 or not), so the timeout is never reported before B has elapsed. *)
C16_DeadlineNotBeforeBudget ==
    /\ alarm_at > 0 => alarm_at >= budget
    /\ timed_out => now >= budget

(* C17: a returned result of an execution in which a fault other than the  *)
(* timeout left the script has success = false, error '<type>: <message>'  *)
(* of a fault the script or a capability raised, and the failure trace as  *)
(* the last thing in its error output; a timeout result has no trace in    *)
(* its error output.                                                       *)
HasTrace(buf) == \E i \in DOMAIN buf : buf[i].text = "Traceback"

C17_FaultReport ==
    \A e \in Execs :
        Returned(e) =>
            /\ (unhandled[e] /\ ~elapsed[e]) =>
                   /\ ~result[e].success
                   /\ \E f \in ScriptFaults \cup {ToolFault} : result[e].error = FaultMsg(f)
                   /\ result[e].error_output # <<>>
                   /\ result[e].error_output[Len(result[e].error_output)].text = "Traceback"
            /\ TimedOutResult(e) => ~HasTrace(result[e].error_output)

(* C18 (as stated): for a script that raises no fault, prints nothing and  *)
(* ends in a bare expression, return_value is the value the expression     *)
(* evaluated to and to_string() is repr of that value, whatever the value. *)
QuietExprRun(e) ==
    /\ Returned(e) /\ rpc[e] = "done"
    /\ last_expr_code[e] /\ evals[e] = 1
    /\ printed[e] = 0 /\ ~unhandled[e] /\ ~elapsed[e]

C18_ToStringIsRepr ==
    \A e \in Execs :
        QuietExprRun(e) =>
            /\ result[e].return_value = eval_value[e]
            /\ to_string(View(e)) = Repr(eval_value[e])

(* C18 (amended): ... and to_string() is repr of that value for every      *)
(* value other than None; for None it is the empty string.                 *)
C18_ToStringIsReprUnlessNone ==
    \A e \in Execs :
        QuietExprRun(e) =>
            /\ result[e].success
            /\ result[e].return_value = eval_value[e]
            /\ to_string(View(e)) = IF eval_value[e] = None THEN <<>> ELSE Repr(eval_value[e])

\* the expression evaluated to the empty str, whose repr is the two quotes
C18_Witness ==
    \E e \in Execs :
        /\ QuietExprRun(e)
        /\ eval_value[e] = PyStr(<<>>)
        /\ to_string(View(e)) = << "'", "'" >>

(* C19 (as stated): to_string() returns, on success, output if it is not   *)
(* empty, else the printed form of return_value if there is one, else the  *)
(* empty string; on failure, error_output if it is not empty, else error;  *)
(* and it leaves the result as it was.                                     *)
OnSuccess(r) ==
    IF r.output # <<>> THEN PyStr(Text(r.output))
    ELSE IF r.return_value # None THEN PyStr(Repr(r.return_value))
    ELSE PyStr(<<>>)

C19_Projection ==
    shown # Unset =>
        shown = IF res.success THEN OnSuccess(res)
                ELSE IF res.error_output # <<>> THEN PyStr(Text(res.error_output))
                ELSE res.error

(* C19 (amended): ... on failure, error_output if it is not empty, else    *)
(* error if it is present and not empty, else the text 'Unknown error';    *)
(* and it leaves the result as it was.                                     *)
C19_ProjectionWithFallback ==
    /\ [](shown # Unset =>
            shown = IF res.success THEN OnSuccess(res)
                    ELSE IF res.error_output # <<>> THEN PyStr(Text(res.error_output))
                    ELSE IF res.error \notin {None, PyStr(<<>>)} THEN res.error
                    ELSE PyStr(<< "Unknown error" >>))
    /\ [][res' = res]_vars

\* a failure with no error stream and no description was projected
C19_Witness ==
    /\ res # Unset /\ ~res.success
    /\ res.error_output = <<>> /\ res.error = None
    /\ shown = PyStr(<< "Unknown error" >>)

(* C20: the import guard accepts a request iff its level is 0 and its name *)
(* is on the allowlist or is the parent package of an allowlisted dotted   *)
(* name; every other request ends in ImportError with nothing loaded, and  *)
(* no module whose name is neither allowlisted nor such a parent is loaded.*)
Allowlisted(name) == name \in SAFE_MODULES

ParentOfAllowlisted(name) ==
    \E m \in SAFE_MODULES : Len(m) > 1 /\ name = SubSeq(m, 1, Len(m) - 1)

C20_ImportGuard ==
    imported # Unset =>
        /\ imported.status = "ok" <=>
               /\ request.level = 0
               /\ Allowlisted(request.name) \/ ParentOfAllowlisted(request.name)
        /\ imported.status # "ok" => imported.status = "ImportError" /\ imported.loaded = {}
        /\ \A m \in imported.loaded : Allowlisted(m) \/ ParentOfAllowlisted(m)

(* C21: a request that names the parent of an allowlisted dotted module is *)
(* accepted, and no form of request (import a.b, from a import b, from a.b *)
(* import c) makes the guard load a submodule of such a parent that is not *)
(* itself on the allowlist, urllib.request for one.                        *)
UnderSafeParent(m) == Len(m) > 1 /\ << m[1] >> \in SAFE_PARENT_PACKAGES

C21_NoOtherSubmodule ==
    imported # Unset =>
        /\ (request.level = 0 /\ request.name \in SAFE_PARENT_PACKAGES) => imported.status = "ok"
        /\ \A m \in imported.loaded : UnderSafeParent(m) => m \in SAFE_MODULES

(* C22: a script that imports a module that is not on the allowlist ends   *)
(* with success = false, an error that carries the ImportError marker, and *)
(* an error text that names at least one allowed module.                   *)
ImportTargets(r) ==
    ({ r.name } \cup { r.name \o << f >> : f \in r.fromlist }) \cap (Installed \cup { r.name })

ImportsUnlisted(r) ==
    /\ r.level = 0
    /\ \E m \in ImportTargets(r) : ~Allowlisted(m) /\ ~ParentOfAllowlisted(m)

NamesAllowed(text) == \E i \in DOMAIN text : text[i] \in SAFE_MODULES

C22_ImportDenied ==
    (script_result # Unset /\ ImportsUnlisted(request)) =>
        /\ ~script_result.success
        /\ script_result.error # None
        /\ script_result.error.s[1] = << "ImportError" >>
        /\ NamesAllowed(script_result.error.s)

(* C23: the message of a rejection lists the full allowed set in sorted    *)
(* order: every name the guard accepts is an entry, the entries ascend,    *)
(* and every rejection of the same name carries the same message.          *)
Rejected == imported # Unset /\ imported.status = "ImportError"

Accepted(name) == safe_import(name, {}, 0).status = "ok"

\* the entries of the list: what follows the header, separators left out
Listed(msg) == [i \in 1..(Len(msg) \div 2 - 1) |-> msg[2 + 2 * i]]

C23_RejectionMessage ==
    Rejected =>
        /\ \A n \in Requests : Accepted(n.name) =>
               \E i \in DOMAIN Listed(imported.msg) : Listed(imported.msg)[i] = n.name
        /\ \A i, j \in DOMAIN Listed(imported.msg) :
               i < j => StrLess(Chars(Listed(imported.msg)[i]), Chars(Listed(imported.msg)[j]))
        /\ \A r \in Requests :
               (r.name = request.name /\ safe_import(r.name, r.fromlist, r.level).status = "ImportError")
                   => safe_import(r.name, r.fromlist, r.level).msg = imported.msg

(* C24: two executions of the same script with the same capabilities give  *)
(* results equal in every field: nothing one execution bound, rebound or   *)
(* set on a pre-injected module is seen by a later one.                    *)
C24_NoStateLeak ==
    \A i, j \in DOMAIN sb_results : sb_results[i] = sb_results[j]

(* C25: once execute_code has returned, whatever the outcome (a timeout of *)
(* the worker-based strategy included), the process's stdout and stderr    *)
(* are the streams that were in place before the call.                     *)
C25_StreamsRestored ==
    \A e \in Execs : Returned(e) => sys_stdout = "real" /\ sys_stderr = "real"

(* C26: when tool.fn returns a coroutine, the wrapper resolves it before   *)
(* it logs and returns: the record and the script get the resolved value;  *)
(* it resolves in a pool thread when a loop is running in the calling      *)
(* thread and in the calling thread otherwise; asyncio.run is never        *)
(* entered on a thread that is running a loop; and if the coroutine        *)
(* finishes, the call returns.                                             *)
C26_AsyncResolved ==
    /\ [](/\ aw_pc # "raised"
          /\ \A t \in DOMAIN running_loops : running_loops[t] <= 1
          /\ (coro # Unset /\ coro.on # "none") =>
                 coro.on = IF aw_in.loop THEN "pool" ELSE "caller"
          /\ \A i \in DOMAIN aw_log : aw_log[i].result = aw_in.value
          /\ aw_pc = "returned" =>
                 /\ aw_ret = aw_in.value
                 /\ Len(aw_log) = 1
                 /\ aw_in.async => coro.state = "done")
    /\ (~(aw_in.async /\ aw_in.hangs) ~> aw_pc = "returned")

\* an asynchronous tool called where a loop is running, resolved in the pool thread
C26_Witness ==
    /\ aw_pc = "returned"
    /\ aw_in.loop /\ aw_in.async /\ aw_in.awaits > 0
    /\ coro.on = "pool"
    /\ aw_ret = aw_in.value /\ aw_ret # CoroObj

(* C27: nothing a script can reach from the restricted namespace gives it  *)
(* a raw file handle, a socket or a child process.                         *)
C27_NoEscape ==
    held \cap {"file", "socket", "process"} = {}

(* C28: the module allowlist is static: whatever scripts do, the names the *)
(* import guard accepts stay those it accepted at the start, in the same   *)
(* execution and in every later one.                                       *)
C28_AllowlistStatic ==
    \A name \in TriedImports :
        GuardAccepts(name) <=> (name \in SAFE_MODULES \/ name \in SAFE_PARENT_PACKAGES)

(* C29: extract_code returns the stripped content of the first block of    *)
(* the response that is fenced as python if there is one (a generic block  *)
(* before it or not), else the stripped content of the first generic       *)
(* block, else None; never the content of a later block of the same kind.  *)
FirstBlock(doc, open) ==
    LET at == { i \in DOMAIN doc : doc[i].open = open }
    IN  IF at = {} THEN None
        ELSE PyStr(Strip(doc[CHOOSE i \in at : \A k \in at : i <= k].body))

C29_FirstBlock ==
    extracted # Unset =>
        extracted = IF FirstBlock(llm_response, "<fence>python") # None
                    THEN FirstBlock(llm_response, "<fence>python")
                    ELSE FirstBlock(llm_response, "<fence>")

(* C30: a trailing expression is separated iff the script parses and its   *)
(* last top-level statement is a bare expression; then the body is all the *)
(* statements before it, in order (none: no body), and just that statement *)
(* is evaluated; otherwise the whole script is the body, nothing is        *)
(* evaluated and return_value stays None (a script that does not parse     *)
(* runs nothing at all).                                                   *)
Separable(c) ==
    c.parses /\ c.stmts # <<>> /\ c.stmts[Len(c.stmts)].kind = "expr"

C34_NoValueOnFailure ==
    \A e \in Execs :
        (Returned(e) /\ ~result[e].success) => result[e].return_value = None

----------------------------------------------------------------------------
(* Text on the error stream that is not a trace: a capability (host code)  *)
(* writes a line to sys.stderr while the script runs, which line 298       *)
(* redirects to the capture, and lines 356 and 53 hand to the caller.      *)

\* line 73 under line 298: tool.fn writes to sys.stderr, once per script
ScriptWarn(e) ==
    /\ InScript(e)
    /\ inflight[e] = {}
    /\ ~diverges[e]
    /\ \A i \in DOMAIN stderr_capture[e] : stderr_capture[e][i].text # "warning"
    /\ stderr_capture' = WriteTo(sys_stderr, stderr_capture, [src |-> e, text |-> "warning"])
    /\ UNCHANGED << calcVars, eval_value, evals, procVars, redirVars, pc, inputVars, rpc, fault,
                    result, callVars, stdout_capture, printed, loopVars, elapsed, unhandled >>

\* one execute_code call, A's restricted script, with capabilities that may warn
WarnInit == InitWith("stderr") /\ CalcIdle

WarnNext == Next \/ \E e \in Execs : ScriptWarn(e)

WarnSpec == WarnInit /\ [][WarnNext]_vars

\* part occurs in text
Contains(text, part) ==
    \E i \in 0..(Len(text) - Len(part)) : SubSeq(text, i + 1, i + Len(part)) = part

(* C35: for every failed result execute_code returned, to_string() is not  *)
(* empty, and for every timed-out one it contains the timeout message with *)
(* the budget, whatever was written to standard error before the deadline. *)
C35_FailureShown ==
    \A e \in Execs :
        (Returned(e) /\ ~result[e].success) =>
            /\ to_string(View(e)) # <<>>
            /\ TimedOutResult(e) => Contains(to_string(View(e)), TimeoutMsg.s)

(* C32: side effects that happened before a failure are kept: when an      *)
(* execution has returned a failed result (a fault or the timeout), the    *)
(* result's call log holds, in the order of their returns, one record for  *)
(* every capability call that returned to the script, its output is what   *)
(* the script printed, in order, and at the moment the result is collected *)
(* the output holds every print the script made up to then.                *)
FailedResult(e) == Returned(e) /\ ~result[e].success

C32_SideEffectsKept ==
    /\ [](\A e \in Execs :
            FailedResult(e) =>
                /\ Len(ToolCalls(e)) = Len(script_saw[e])
                /\ \A i \in DOMAIN ToolCalls(e) :
                      ToolCalls(e)[i] = RecordFor(e, script_saw[e][i].id, script_saw[e][i].value)
                /\ IsPrefix(result[e].output, stdout_capture[e]))
    /\ [][\A e \in Execs :
            (pc[e] = "L355" /\ FailedResult(e)') =>
                /\ Len(result[e]'.output) = printed[e]
                /\ \A i \in DOMAIN result[e]'.output :
                      result[e]'.output[i] = [src |-> e, text |-> "hello"]]_vars

\* a script printed, made two different calls that returned, and then raised
C32_Witness ==
    \E e \in Execs :
        /\ FailedResult(e) /\ unhandled[e] /\ ~elapsed[e]
        /\ Len(result[e].output) = 1
        /\ Len(ToolCalls(e)) = 2
        /\ issued[e][1] # issued[e][2]
        /\ ReturnedIds(e) = <<1, 2>>

----------------------------------------------------------------------------
(* The call record and the objects it refers to, lines 66-92: the record   *)
(* stores the argument tuple, the keyword dict and the result as the       *)
(* wrapper got them, that is, references to the caller's objects.          *)

\* most items a list grows to
MaxItems == 2

\* a reference to the list object number i of the heap
Ref(i) == [t |-> "ref", id |-> i]

\* what tool.fn gives back: the object it was passed, a new list, or an int
Returns == {"same", "copy", "len"}

\* line 73: tool.fn(*args, **kwargs) for a one-argument call; a new list is the next
\* object of the heap
ToolResult(arg, how) ==
    CASE how = "same" -> arg
      [] how = "copy" -> Ref(Len(heap) + 1)
      [] how = "len"  -> IF arg.t = "ref" THEN PyInt(Len(heap[arg.id])) ELSE PyInt(1)

\* lines 66-92: the script calls the wrapper with an int or one of its lists, with or
\* without one of its lists as keyword argument; the record is built from the very
\* objects passed and returned, and appended
WrapperCall ==
    /\ Len(rec_log) < MaxCalls
    /\ \E arg \in {PyInt(3)} \cup {Ref(i) : i \in DOMAIN heap},
          kw \in {{}} \cup {{<< "extra", Ref(i) >>} : i \in DOMAIN heap},
          how \in Returns :
         LET made == IF how = "copy"
                     THEN Append(heap, IF arg.t = "ref" THEN heap[arg.id] ELSE << arg.v >>)
                     ELSE heap
             rec  == [name |-> ToolName, args |-> << arg >>, kwargs |-> kw,
                      result |-> ToolResult(arg, how)]
             Read(v) == IF v.t = "ref" THEN [t |-> "list", items |-> made[v.id]] ELSE v
         IN  /\ heap' = made
             /\ rec_log' = Append(rec_log, rec)
             /\ rec_made' = Append(rec_made,
                               [name |-> rec.name, args |-> << Read(arg) >>,
                                kwargs |-> {<< p[1], Read(p[2]) >> : p \in kw},
                                result |-> Read(rec.result)])
    /\ UNCHANGED restOfRecord

\* line 300: the script appends to a list it holds (one it passed, or one it got back)
ScriptMutate ==
    /\ \E i \in DOMAIN heap :
         /\ Len(heap[i]) < MaxItems
         /\ heap' = [heap EXCEPT ![i] = Append(@, 9)]
    /\ UNCHANGED << rec_log, rec_made, restOfRecord >>

\* the script has made the list xs = [1]
RecordInit ==
    /\ InitWith("record")
    /\ heap = << << 1 >> >>
    /\ rec_log = <<>>
    /\ rec_made = <<>>
    /\ IdleButRecord

RecordNext == WrapperCall \/ ScriptMutate

RecordSpec == RecordInit /\ [][RecordNext]_vars

\* a record as the holder of the log reads it now
AsSeen(rec) ==
    LET Read(v) == IF v.t = "ref" THEN [t |-> "list", items |-> heap[v.id]] ELSE v
    IN  [name |-> rec.name, args |-> [i \in DOMAIN rec.args |-> Read(rec.args[i])],
         kwargs |-> {<< p[1], Read(p[2]) >> : p \in rec.kwargs},
         result |-> Read(rec.result)]

(* C36: a call record is never mutated after creation: the name, args,     *)
(* kwargs and result of every record of the log read as they did when the  *)
(* record was appended, whatever the script does afterwards to an object   *)
(* it passed as an argument or received as the result.                     *)
C36_RecordImmutable ==
    \A i \in DOMAIN rec_log : AsSeen(rec_log[i]) = rec_made[i]

----------------------------------------------------------------------------
(* The interrupt-based strategy with execute_code called again from a      *)
(* capability of the running script (Toolkit.execute, toolkit.py lines     *)
(* 346-356), on the main thread: lines 331-343 act on the one SIGALRM      *)
(* timer and the one SIGALRM handler of the process.                       *)

\* calls on the stack
MaxDepth == 2
\* largest budget, in whole seconds
MaxSeconds == 3

\* no timer is pending
NoAlarm == [owner |-> 0, left |-> 0]

\* the call that is executing
Top == n_stack[Len(n_stack)]

\* lines 332-340: the host calls execute_code, or a capability of the running script
\* does; the handler in place is saved, _timeout_handler installed, and signal.alarm
\* sets the timer, which replaces the one that was pending
NestCall ==
    /\ Len(n_stack) < MaxDepth
    /\ IF n_stack = <<>> THEN n_last = "none" ELSE Top.pos = "run"
    /\ \E b \in 1..MaxSeconds :
         /\ n_stack' = Append(n_stack, [budget |-> b, pos |-> "run", outcome |-> "none",
                                        original_handler |-> n_handler])
         /\ n_alarm' = [owner |-> Len(n_stack) + 1, left |-> b]
    /\ n_handler' = Len(n_stack) + 1
    /\ UNCHANGED << n_last, restOfNest >>

\* a second passes while the script runs
NestTick ==
    /\ n_stack # <<>> /\ Top.pos = "run"
    /\ n_alarm.left > 1
    /\ n_alarm' = [n_alarm EXCEPT !.left = @ - 1]
    /\ UNCHANGED << n_stack, n_handler, n_last, restOfNest >>

\* lines 334-335 and 304-306: the timer expires, the installed handler raises
\* _TimeoutError in the code that is running, and _run reports the timeout
NestFire ==
    /\ n_stack # <<>> /\ Top.pos = "run"
    /\ n_alarm.left = 1
    /\ n_handler # 0
    /\ n_alarm' = NoAlarm
    /\ n_stack' = [n_stack EXCEPT ![Len(n_stack)].pos = "finally", ![Len(n_stack)].outcome = "timeout"]
    /\ UNCHANGED << n_handler, n_last, restOfNest >>

\* line 340 returns: the script ended on its own
NestFinish ==
    /\ n_stack # <<>> /\ Top.pos = "run"
    /\ n_stack' = [n_stack EXCEPT ![Len(n_stack)].pos = "finally", ![Len(n_stack)].outcome = "done"]
    /\ UNCHANGED << n_alarm, n_handler, n_last, restOfNest >>

\* lines 341-343 and 359: signal.alarm(0) cancels whatever timer is pending, the saved
\* handler is put back, and the call returns to its caller
NestDisarm ==
    /\ n_stack # <<>> /\ Top.pos = "finally"
    /\ n_alarm' = NoAlarm
    /\ n_handler' = Top.original_handler
    /\ n_last' = Top.outcome
    /\ n_stack' = SubSeq(n_stack, 1, Len(n_stack) - 1)
    /\ UNCHANGED restOfNest

NestInit ==
    /\ InitWith("nested")
    /\ n_stack = <<>>
    /\ n_alarm = NoAlarm
    /\ n_handler = 0
    /\ n_last = "none"
    /\ IdleButNest

NestNext == NestCall \/ NestTick \/ NestFire \/ NestFinish \/ NestDisarm

NestSpec == NestInit /\ [][NestNext]_vars

(* C33: under the interrupt-based strategy the deadline of an execution is *)
(* armed for as long as the execution is Running, also for an execution    *)
(* whose capability runs a nested execute_code on the same thread: while   *)
(* call i is Running, the pending timer is the one call i armed.           *)
C33_DeadlineStaysArmed ==
    \A i \in DOMAIN n_stack :
        n_stack[i].pos = "run" => (n_alarm.owner = i /\ n_alarm.left >= 1)

----------------------------------------------------------------------------
(* The state execute_code builds for each call, lines 247-270, as objects  *)
(* with an identity: two executions, overlapping or one after the other.   *)
(* Object 1 is the module-level table _SAFE_BUILTINS.                      *)

\* a value a script stored, tagged with the execution whose script stored it
StoredBy(e) == [t |-> "stored", by |-> e]

\* a namespace dict that shares the module-level table instead of copying it
builtins_shared(fresh) == 1

\* line 253: builtins_dict = dict(_SAFE_BUILTINS), a new object
builtins_dict(fresh) == fresh

\* lines 247-270: call_log = [], the two StringIO buffers, namespace = {}, the copy
\* of the built-in table as namespace["__builtins__"], the wrappers closed over call_log
IsoBuild(e) ==
    /\ ex[e].pc = "idle"
    /\ LET n == Len(objs)
       IN  /\ objs' = objs \o << [t |-> "list", items |-> <<>>],
                                 [t |-> "buffers", items |-> <<>>],
                                 [t |-> "dict", items |-> objs[1].items],
                                 [t |-> "dict", items |-> [x |-> Absent]] >>
           /\ ex' = [ex EXCEPT ![e] = [pc |-> "run", call_log |-> n + 1, buffers |-> n + 2,
                                       builtins |-> builtins_dict(n + 3), namespace |-> n + 4]]
    /\ UNCHANGED restOfIso

\* line 300: the script binds the global name x, or stores under a key of __builtins__
IsoWrite(e) ==
    /\ ex[e].pc = "run"
    /\ \/ /\ objs[ex[e].namespace].items.x = Absent
          /\ objs' = [objs EXCEPT ![ex[e].namespace].items.x = StoredBy(e)]
       \/ \E k \in {"len", "mark"} :
            /\ objs[ex[e].builtins].items[k] # StoredBy(e)
            /\ objs' = [objs EXCEPT ![ex[e].builtins].items[k] = StoredBy(e)]
    /\ UNCHANGED << ex, restOfIso >>

\* lines 66-92: the script calls a wrapper of its namespace, which appends the record
\* to the list it was made with
IsoCallTool(e) ==
    /\ ex[e].pc = "run"
    /\ Len(objs[ex[e].call_log].items) < MaxCalls
    /\ objs' = [objs EXCEPT ![ex[e].call_log].items = Append(@, [name |-> ToolName, by |-> e])]
    /\ UNCHANGED << ex, restOfIso >>

\* line 359
IsoReturn(e) ==
    /\ ex[e].pc = "run"
    /\ ex' = [ex EXCEPT ![e].pc = "returned"]
    /\ UNCHANGED << objs, restOfIso >>

IsoInit ==
    /\ InitWith("fresh")
    /\ objs = << [t |-> "dict", items |-> SAFE_BUILTINS] >>
    /\ ex = [e \in Execs |-> [pc |-> "idle", call_log |-> 0, buffers |-> 0, builtins |-> 0,
                              namespace |-> 0]]
    /\ IdleButIso

IsoNext == \E e \in Execs : IsoBuild(e) \/ IsoWrite(e) \/ IsoCallTool(e) \/ IsoReturn(e)

IsoSpec == IsoInit /\ [][IsoNext]_vars

\* the objects execution e was built with
OwnObjects(e) == { ex[e].call_log, ex[e].buffers, ex[e].builtins, ex[e].namespace }

Built(e) == ex[e].pc # "idle"

====
